---- MODULE Spec2Model ----
(***************************************************************************)
(* A model of the retry, polling and upgrade-coordination helpers of the   *)
(* astria system tests (src/system-tests).                                 *)
(*                                                                         *)
(* Time is the monotonic clock of time.monotonic(), counted in fifths of a *)
(* second so that the default initial delay of 0.4 s, the 1 s delay of the *)
(* polling waits and the 5 s ceiling of the backoff are all whole numbers. *)
(***************************************************************************)
EXTENDS Integers, Sequences, FiniteSets, TLC

\* ------------------------------------------------------------------ bounds

\* Largest timeout_secs (in seconds) handed to the Retryer constructor.
MaxTimeoutSecs == 12
\* Largest initial_delay_secs (in seconds) handed to the Retryer constructor.
MaxDelaySecs == 6
\* Latest clock reading (in ticks) at which a Retryer is constructed.
MaxStartTicks == 2
\* Largest timeout_secs (in seconds) handed to a polling wait.
MaxPollTimeoutSecs == 7
\* The time (in ticks) a slow query attempt takes; a fast one takes none.
SlowAttemptTicks == 1
\* Largest height or balance a query reports or a wait asks for.
MaxValue == 2
\* Largest number of nodes handed to a check.
MaxNodes == 2

\* The highest block height a node reports.
MaxHeight == 5

\* How many times one node is staged.
MaxStages == 2

\* The longest list of change infos a node reports.
MaxChangeInfos == 2

\* ------------------------------------------------------------- time, units

\* n seconds in clock ticks (one tick is 0.2 s).
Secs(n) == 5 * n

\* Retryer.__init__'s default initial_delay_secs=0.4, in ticks.
DefaultInitialDelay == 2

\* The ceiling of the exponential backoff: min(self.sleep_secs * 2, 5).
MaxSleepSecs == Secs(5)

\* Python's builtin min of two numbers.
Min(a, b) == IF a <= b THEN a ELSE b

RECURSIVE SumSeq(_)
\* The sum of a sequence of numbers.
SumSeq(s) == IF s = <<>> THEN 0 ELSE s[1] + SumSeq(Tail(s))

\* ----------------------------------------------------------------- Retryer

\* The fields of a Retryer before __init__ has run (no object yet).
NoRetryer ==
    [timeout_instant |-> 0, sleep_secs |-> 0,
     exponential_backoff |-> FALSE, successful_wait_count |-> 0]

\* A faulty variant: the first check lets timeout_secs = initial_delay_secs through.
RetryerInitRaises_strict(timeout_secs, initial_delay_secs) ==
    \/ timeout_secs < initial_delay_secs
    \/ initial_delay_secs <= 0

\* A faulty variant: the check that initial_delay_secs is positive is missing.
RetryerInitRaises_no_positive_check(timeout_secs, initial_delay_secs) ==
    timeout_secs <= initial_delay_secs

\* Retryer.__init__: the two argument checks that raise ValueError.
RetryerInitRaises(timeout_secs, initial_delay_secs) ==
    \/ timeout_secs <= initial_delay_secs
    \/ initial_delay_secs <= 0

\* Retryer.__init__: the object built at clock reading t.
RetryerInit(t, timeout_secs, initial_delay_secs, exponential_backoff) ==
    [timeout_instant |-> t + timeout_secs,
     sleep_secs |-> initial_delay_secs,
     exponential_backoff |-> exponential_backoff,
     successful_wait_count |-> 0]

\* A faulty variant: wait() gives up only once the deadline itself has passed.
RetryerWait_checks_only_now(r, t) ==
    IF t > r.timeout_instant
    THEN [raised |-> TRUE, slept |-> 0, retryer |-> r]
    ELSE [raised |-> FALSE, slept |-> r.sleep_secs,
          retryer |-> [r EXCEPT
              !.sleep_secs = IF r.exponential_backoff
                             THEN Min(r.sleep_secs * 2, MaxSleepSecs) ELSE @,
              !.successful_wait_count = @ + 1]]

\* A faulty variant: wait() counts the attempt before it checks the deadline.
RetryerWait_counts_before_check(r, t) ==
    IF t + r.sleep_secs > r.timeout_instant
    THEN [raised |-> TRUE, slept |-> 0,
          retryer |-> [r EXCEPT !.successful_wait_count = @ + 1]]
    ELSE [raised |-> FALSE, slept |-> r.sleep_secs,
          retryer |-> [r EXCEPT
              !.sleep_secs = IF r.exponential_backoff
                             THEN Min(r.sleep_secs * 2, MaxSleepSecs) ELSE @,
              !.successful_wait_count = @ + 1]]

\* A faulty variant: the doubled delay is not capped.
RetryerWait_uncapped(r, t) ==
    IF t + r.sleep_secs > r.timeout_instant
    THEN [raised |-> TRUE, slept |-> 0, retryer |-> r]
    ELSE [raised |-> FALSE, slept |-> r.sleep_secs,
          retryer |-> [r EXCEPT
              !.sleep_secs = IF r.exponential_backoff
                             THEN r.sleep_secs * 2 ELSE @,
              !.successful_wait_count = @ + 1]]

\* A faulty variant: the delay doubles in fixed mode too.
RetryerWait_always_doubles(r, t) ==
    IF t + r.sleep_secs > r.timeout_instant
    THEN [raised |-> TRUE, slept |-> 0, retryer |-> r]
    ELSE [raised |-> FALSE, slept |-> r.sleep_secs,
          retryer |-> [r EXCEPT
              !.sleep_secs = Min(r.sleep_secs * 2, MaxSleepSecs),
              !.successful_wait_count = @ + 1]]

\* A faulty variant: the count is raised inside `if self.exponential_backoff:`.
RetryerWait_counts_in_backoff_only(r, t) ==
    IF t + r.sleep_secs > r.timeout_instant
    THEN [raised |-> TRUE, slept |-> 0, retryer |-> r]
    ELSE [raised |-> FALSE, slept |-> r.sleep_secs,
          retryer |-> [r EXCEPT
              !.sleep_secs = IF r.exponential_backoff
                             THEN Min(r.sleep_secs * 2, MaxSleepSecs) ELSE @,
              !.successful_wait_count = IF r.exponential_backoff
                                        THEN @ + 1 ELSE @]]

\* A faulty variant: a wait that would end exactly at the deadline raises.
RetryerWait_gives_up_at_deadline(r, t) ==
    IF t + r.sleep_secs >= r.timeout_instant
    THEN [raised |-> TRUE, slept |-> 0, retryer |-> r]
    ELSE [raised |-> FALSE, slept |-> r.sleep_secs,
          retryer |-> [r EXCEPT
              !.sleep_secs = IF r.exponential_backoff
                             THEN Min(r.sleep_secs * 2, MaxSleepSecs) ELSE @,
              !.successful_wait_count = @ + 1]]

\* Retryer.wait() called at clock reading t: whether it raises
\* RuntimeError("timed out"), how long it slept, and the fields afterwards.
RetryerWait(r, t) ==
    IF t + r.sleep_secs > r.timeout_instant
    THEN [raised |-> TRUE, slept |-> 0, retryer |-> r]
    ELSE [raised |-> FALSE, slept |-> r.sleep_secs,
          retryer |-> [r EXCEPT
              !.sleep_secs = IF r.exponential_backoff
                             THEN Min(r.sleep_secs * 2, MaxSleepSecs) ELSE @,
              !.successful_wait_count = @ + 1]]

\* Retryer.seconds_remaining() at clock reading t.
SecondsRemaining(r, t) == r.timeout_instant - t

\* ------------------------------------------------------------------- state

VARIABLES
    now,        \* time.monotonic()
    r_phase,    \* "new" (no Retryer yet), "ready", "value_error"
    r_args,     \* the arguments __init__ was called with
    r_created,  \* the clock reading when __init__ ran
    retryer,    \* the Retryer's fields
    r_last,     \* the last thing that happened to it
    sleeps,     \* the durations handed to time.sleep, in order
    op,         \* the helper being run
    pc,         \* where that helper is
    timeout_arg,\* its timeout_secs argument
    target,     \* the height or balance it waits for
    latest,     \* latest_block_height / balance, None until a query succeeds
    cmd_retryer,\* the Retryer local to a *_with_retry helper
    last_error, \* the error of the most recent failed attempt
    result,     \* how the helper ended
    counts,     \* bookkeeping: attempts made, retried commands run and given up
    chk,        \* the loop variables of _check_balance_post_ics20_transfer
    ctl,        \* the fields of one SequencerController
    up,         \* the arguments, locals and position of its running method
    calls,      \* what it has asked of the cluster and the node, in order
    ci,         \* one call of check_change_infos: arguments and outcome
    drv,        \* the upgrade test's driver: its locals and position
    cmp,        \* one comparison of the cohort against its first node
    par,        \* one parallel phase of a driver: its futures and its wait
    tk,         \* the wait_for_upgrade tasks running side by side
    br,         \* one call of _check_bridge_account_deposits_disabled
    av          \* the app version check after the upgrade

retryerVars == <<r_phase, r_args, r_created, retryer, r_last, sleeps>>

pollVars == <<op, pc, timeout_arg, target, latest, cmd_retryer, last_error,
              result, counts, chk>>

upVars == <<ctl, up, calls>>

lifecycleVars == <<upVars, ci, drv, cmp, par, tk, br, av>>

helperVars == <<now, retryerVars, pollVars>>

vars == <<now, retryerVars, pollVars, lifecycleVars>>

\* The arguments the constructor is tried with, legal and not.
TimeoutArgs == {Secs(k) : k \in -1 .. MaxTimeoutSecs}
DelayArgs == {Secs(k) : k \in -1 .. MaxDelaySecs} \cup {DefaultInitialDelay}

\* Far enough for every deadline to pass.
TimeHorizon == MaxStartTicks + Secs(MaxTimeoutSecs) + 1

RetryerIdle ==
    /\ r_phase = "new"
    /\ r_args = [timeout_secs |-> 0, initial_delay_secs |-> 0]
    /\ r_created = 0
    /\ retryer = NoRetryer
    /\ r_last = "none"
    /\ sleeps = <<>>

\* ------------------------------------------- polling waits, retried queries

\* Python's None, for a local that no successful query has assigned yet.
None == -1

\* No error: nothing has failed yet, or an error message names no cause.
NoError == "none"

\* The errors single attempts fail with, all subclasses of Exception: the
\* request itself fails (a `requests` exception, a DockerException, a gRPC
\* error), or the response is an error (RuntimeError).
Errors == {"request_failed", "error_response"}

\* How long single attempts take.
AttemptDurations == {0, SlowAttemptTicks}

\* The heights and balances the queried services report.
Values == 0 .. MaxValue

\* The output of `astria-cli sequencer account balance` whose last line
\* does not end with "nria".
Malformed == MaxValue + 1

\* RETRIES of blackburn_upgrade_checks.
RETRIES == 10

\* The waits that poll until a condition holds, each around a Retryer with
\* initial_delay_secs=1, exponential_backoff=False.
PollingWaits ==
    {"seq_wait_until_chain_at_height", "evm_wait_until_balance",
     "evm_wait_until_chain_at_height", "cli_wait_until_balance"}

\* The helpers that retry one request until it succeeds, each around a
\* Retryer(timeout_secs) with the default exponential backoff.
RetryingQueries ==
    {"seq_try_send_json_rpc_request_with_retry",
     "seq_try_send_grpc_request_with_retry",
     "cli_try_exec_sequencer_command_with_retry"}

\* The helpers whose query is itself a retried command (Cli._try_get_balance
\* runs _try_exec_sequencer_command_with_retry).
UsesRetriedCommand(o) ==
    o \in RetryingQueries \cup {"cli_wait_until_balance"}

\* initial_delay_secs=1 of the polling waits.
PollDelay == Secs(1)

\* The default timeout_secs of each *_with_retry helper.
RetryTimeout(o) ==
    IF o = "seq_try_send_json_rpc_request_with_retry" THEN Secs(30) ELSE Secs(10)

\* Python truthiness of an int-or-None local.
Truthy(v) == v # None /\ v # 0

\* A faulty variant: the sequencer wait wants a height above the target.
ConditionMet_strict(o, value, wanted) ==
    CASE o = "seq_wait_until_chain_at_height" -> value # None /\ value > wanted
      [] o = "evm_wait_until_chain_at_height" -> Truthy(value) /\ value >= wanted
      [] OTHER -> value # None /\ value = wanted

\* The loop's exit test on the value it holds after the query.
ConditionMet(o, value, wanted) ==
    CASE o = "seq_wait_until_chain_at_height" -> value # None /\ value >= wanted
      [] o = "evm_wait_until_chain_at_height" -> Truthy(value) /\ value >= wanted
      [] OTHER -> value # None /\ value = wanted

\* A faulty variant: the except branch of the evm height wait leaves the loop.
AfterQueryFailure_evm_breaks(o) == IF o = "evm_wait_until_balance" THEN "exit" ELSE IF o = "evm_wait_until_chain_at_height" THEN "done" ELSE "wait"

\* A faulty variant: Cli.wait_until_balance lets a failed _try_get_balance end the run.
AfterQueryFailure_cli_fatal(o) ==
    IF o \in {"evm_wait_until_balance", "cli_wait_until_balance"}
    THEN "exit" ELSE "wait"

\* Where a polling wait goes when its query attempt fails: the loops with an
\* `except Exception` around the query go on to retryer.wait();
\* EvmController.wait_until_balance calls get_balance, which turns the
\* failure into SystemExit, outside any try.
AfterQueryFailure(o) ==
    IF o = "evm_wait_until_balance" THEN "exit" ELSE "wait"

\* A faulty variant: after a wait that returned the loop waits again.
AfterWait_sleeps_again(raised) == IF raised THEN "exit" ELSE "wait"

\* Where a polling wait goes after retryer.wait(): the RuntimeError becomes
\* the SystemExit, a normal return falls through the print to the top of
\* `while True`, the query.
AfterWait(raised) == IF raised THEN "exit" ELSE "query"

\* A faulty variant: the message holds successful_wait_count itself.
GiveUpError_counts_waits(o, r, err) == [kind |-> "RuntimeError", last_error |-> NoError, count |-> r.successful_wait_count]

\* The RuntimeError a *_with_retry helper raises once its Retryer has timed
\* out: the message holds the attempt count, and only the Cli's also holds
\* last_error.
GiveUpError(o, r, err) ==
    [kind |-> "RuntimeError",
     last_error |-> IF o \in {"cli_try_exec_sequencer_command_with_retry",
                              "cli_wait_until_balance"}
                    THEN err ELSE NoError,
     count |-> r.successful_wait_count + 1]

NoResult == [kind |-> "none", last_error |-> NoError, count |-> 0]

Returned == [kind |-> "returned", last_error |-> NoError, count |-> 0]

\* SystemExit(message): the message names err when the code formats it in.
SystemExit(err) == [kind |-> "SystemExit", last_error |-> err, count |-> 0]

\* attempts: queries made by the outer loop; cmd_runs: *_with_retry calls
\* made; cmd_giveups: those that raised their give-up error; cmd_attempts:
\* failed attempts inside the current one; reruns: *_with_retry calls made
\* after an earlier one had given up.
NoCounts ==
    [attempts |-> 0, cmd_runs |-> 0, cmd_giveups |-> 0, cmd_attempts |-> 0,
     reruns |-> 0]

NoChk == [nodes |-> 0, node |-> 0, tries |-> 0, delay |-> 0, unmet |-> {}]

PollIdle ==
    /\ op = "none"
    /\ pc = "idle"
    /\ timeout_arg = 0
    /\ target = 0
    /\ latest = None
    /\ cmd_retryer = NoRetryer
    /\ last_error = NoError
    /\ result = NoResult
    /\ counts = NoCounts
    /\ chk = NoChk

\* ------------------------------------------- change infos and their check

\* A faulty variant: a change name is listed under both upgrades.
UPGRADE_CHANGES_overlapping ==
    [aspen |-> {"price_feed_change", "validator_update_action_change",
                "ibc_acknowledgement_failure_change"},
     blackburn |-> {"ics20_transfer_action_change", "allow_ibc_relay_to_fail",
                    "price_feed_change"}]

\* UPGRADE_CHANGES of helpers/defaults.py, and its keys in dict order.
UpgradeNames == <<"aspen", "blackburn">>

UPGRADE_CHANGES ==
    [aspen |-> {"price_feed_change", "validator_update_action_change",
                "ibc_acknowledgement_failure_change"},
     blackburn |-> {"ics20_transfer_action_change", "allow_ibc_relay_to_fail"}]

\* expected_upgrade_name = None
NoName == "None"

\* A faulty variant: a change name found in no upgrade is taken for the last one's.
FindUpgradeName_defaults_to_last(change_name, i) ==
    IF change_name \in UPGRADE_CHANGES[UpgradeNames[1]]
    THEN UpgradeNames[1] ELSE UpgradeNames[Len(UpgradeNames)]

\* The inner loop of check_change_infos: the first upgrade, from the i-th
\* key on, whose changes hold change_name.
RECURSIVE FindUpgradeName(_, _)
FindUpgradeName(change_name, i) ==
    IF i > Len(UpgradeNames) THEN NoName
    ELSE IF change_name \in UPGRADE_CHANGES[UpgradeNames[i]]
         THEN UpgradeNames[i]
         ELSE FindUpgradeName(change_name, i + 1)

\* The upgrade_heights argument: a dict from upgrade names to heights, or
\* the bare int that SequencerController.wait_for_upgrade passes.
HeightsDict(f) == [kind |-> "dict", map |-> f, value |-> 0]

HeightsInt(n) == [kind |-> "int", map |-> <<>>, value |-> n]

\* How check_change_infos ends; index is the position of the record the
\* error is about.
Passed == [raised |-> "none", message |-> "none", index |-> 0]

Raised(exception, message, i) ==
    [raised |-> exception, message |-> message, index |-> i]

RECURSIVE CheckEach_ignores_height(_, _, _)
\* A faulty variant: the activation height of a record is not compared.
CheckEach_ignores_height(change_infos, upgrade_heights, i) ==
    IF i > Len(change_infos) THEN Passed
    ELSE LET change_info == change_infos[i]
             expected_upgrade_name == FindUpgradeName(change_info.change_name, 1)
         IN  IF expected_upgrade_name = NoName
             THEN Raised("SystemExit", "unexpected change name", i)
             ELSE IF upgrade_heights.kind # "dict"
             THEN Raised("TypeError", "not subscriptable", i)
             ELSE IF expected_upgrade_name \notin DOMAIN upgrade_heights.map
             THEN Raised("KeyError", expected_upgrade_name, i)
             ELSE CheckEach_ignores_height(change_infos, upgrade_heights, i + 1)

\* The outer loop of check_change_infos from the i-th record on.
\* upgrade_heights[expected_upgrade_name] raises TypeError on an int and
\* KeyError on a dict without that key.
RECURSIVE CheckEach(_, _, _)
CheckEach(change_infos, upgrade_heights, i) ==
    IF i > Len(change_infos) THEN Passed
    ELSE LET change_info == change_infos[i]
             expected_upgrade_name == FindUpgradeName(change_info.change_name, 1)
         IN  IF expected_upgrade_name = NoName
             THEN Raised("SystemExit", "unexpected change name", i)
             ELSE IF upgrade_heights.kind # "dict"
             THEN Raised("TypeError", "not subscriptable", i)
             ELSE IF expected_upgrade_name \notin DOMAIN upgrade_heights.map
             THEN Raised("KeyError", expected_upgrade_name, i)
             ELSE IF change_info.activation_height
                         # upgrade_heights.map[expected_upgrade_name]
             THEN Raised("SystemExit", "activation height", i)
             ELSE CheckEach(change_infos, upgrade_heights, i + 1)

\* A faulty variant: an empty list is let through.
check_change_infos_accepts_empty(change_infos, upgrade_heights, expected_app_version) ==
    LET each == CheckEach(change_infos, upgrade_heights, 1) IN
    IF each # Passed THEN each
    ELSE IF /\ Len(change_infos) > 0
            /\ Truthy(expected_app_version)
            /\ change_infos[Len(change_infos)].app_version
                   # expected_app_version
    THEN Raised("SystemExit", "app version", Len(change_infos))
    ELSE Passed

\* A faulty variant: the app version of the first record is the one compared.
check_change_infos_checks_first(change_infos, upgrade_heights, expected_app_version) ==
    IF Len(change_infos) = 0
    THEN Raised("SystemExit", "no upgrade change info reported", 0)
    ELSE LET each == CheckEach(change_infos, upgrade_heights, 1) IN
         IF each # Passed THEN each
         ELSE IF /\ Truthy(expected_app_version)
                 /\ change_infos[1].app_version # expected_app_version
         THEN Raised("SystemExit", "app version", 1)
         ELSE Passed

\* check_change_infos(change_infos, upgrade_heights, expected_app_version)
check_change_infos(change_infos, upgrade_heights, expected_app_version) ==
    IF Len(change_infos) = 0
    THEN Raised("SystemExit", "no upgrade change info reported", 0)
    ELSE LET each == CheckEach(change_infos, upgrade_heights, 1) IN
         IF each # Passed THEN each
         ELSE IF /\ Truthy(expected_app_version)
                 /\ change_infos[Len(change_infos)].app_version
                        # expected_app_version
         THEN Raised("SystemExit", "app version", Len(change_infos))
         ELSE Passed

\* --------------------------------------- one SequencerController: values

\* The heights a node reports, and the activation heights staged.
Heights == 0 .. MaxHeight

ActivationHeights == 1 .. MaxHeight

\* One request to the cluster or the node, with the arguments that matter
\* (None where it has none), whether it succeeded and the height it
\* returned (None where it returns none).
Call(name, height, timeout_secs, ok, value) ==
    [call |-> name, height |-> height, timeout_secs |-> timeout_secs,
     ok |-> ok, value |-> value]

Max(a, b) == IF a >= b THEN a ELSE b

\* The activation height _helm_args writes into the chart values.
HelmActivationHeight(upgrade_activation_height) ==
    IF Truthy(upgrade_activation_height)
    THEN upgrade_activation_height ELSE None

NoCtl == [last_block_height_before_restart |-> None]

NoUp ==
    [pc |-> "idle", upgrade_activation_height |-> None,
     latest_block_height |-> None, applied |-> <<>>, scheduled |-> <<>>,
     timeout_secs |-> None, raised |-> "none", stages |-> 0,
     previous |-> None]

UpIdle ==
    /\ ctl = NoCtl
    /\ up = NoUp
    /\ calls = <<>>

NoCi ==
    [phase |-> "idle", change_infos |-> <<>>, upgrade_heights |-> HeightsInt(0),
     expected_app_version |-> None, outcome |-> Passed]

NoDrv ==
    [pc |-> "idle", nodes |-> <<>>, missed_upgrade_node |-> None,
     upgrade_activation_height |-> None, latest_block_height |-> None,
     timeout_secs |-> None, i |-> 0, tasks |-> <<>>, log |-> <<>>,
     raised |-> "none"]

NoCmp ==
    [pc |-> "idle", comparison |-> "none", accessors |-> <<>>, size |-> 0,
     observed |-> <<>>, named |-> 0, message |-> "none"]

NoPar ==
    [pc |-> "idle", phase |-> "none", timeout |-> None, tasks |-> <<>>,
     done |-> {}, raised |-> 0]

NoTk == [pc |-> "idle", upgrade_activation_height |-> None, own |-> <<>>]

\* No call of _check_bridge_account_deposits_disabled yet.
NoBr ==
    [pc |-> "idle", node0 |-> "none", deposits_enabled |-> FALSE,
     log |-> <<>>, raised |-> "none", caught |-> "none"]

\* The app version check after the upgrade not yet begun.
NoAv ==
    [pc |-> "idle", app_version_before |-> None, app_version_after |-> None,
     i |-> 0, reads |-> <<>>, raised |-> "none"]

LifecycleIdle ==
    /\ UpIdle
    /\ ci = NoCi
    /\ drv = NoDrv
    /\ cmp = NoCmp
    /\ par = NoPar
    /\ tk = NoTk
    /\ br = NoBr
    /\ av = NoAv

\* ---------------------------------------------- the Retryer on its own

Init ==
    /\ now = 0
    /\ RetryerIdle
    /\ PollIdle
    /\ LifecycleIdle

\* Retryer(timeout_secs, initial_delay_secs, exponential_backoff)
Construct ==
    /\ r_phase = "new"
    /\ \E timeout_secs \in TimeoutArgs, initial_delay_secs \in DelayArgs,
          exponential_backoff \in BOOLEAN :
        /\ r_args' = [timeout_secs |-> timeout_secs,
                      initial_delay_secs |-> initial_delay_secs]
        /\ r_created' = now
        /\ IF RetryerInitRaises(timeout_secs, initial_delay_secs)
           THEN /\ r_phase' = "value_error"
                /\ r_last' = "init_error"
                /\ retryer' = retryer
           ELSE /\ r_phase' = "ready"
                /\ r_last' = "init"
                /\ retryer' = RetryerInit(now, timeout_secs, initial_delay_secs,
                                          exponential_backoff)
    /\ UNCHANGED <<lifecycleVars, now, sleeps, pollVars>>

\* retryer.wait(): the whole call, the sleep included.
Wait ==
    /\ r_phase = "ready"
    /\ LET w == RetryerWait(retryer, now) IN
        /\ retryer' = w.retryer
        /\ now' = now + w.slept
        /\ r_last' = IF w.raised THEN "wait_timeout" ELSE "wait_ok"
        /\ sleeps' = IF w.raised THEN sleeps ELSE Append(sleeps, w.slept)
    /\ UNCHANGED <<lifecycleVars, r_phase, r_args, r_created, pollVars>>

\* Time passes outside wait(): before construction or between two calls.
Tick ==
    /\ r_phase # "value_error"
    /\ IF r_phase = "new" THEN now < MaxStartTicks ELSE now < TimeHorizon
    /\ now' = now + 1
    /\ r_last' = IF r_phase = "new" THEN r_last ELSE "tick"
    /\ UNCHANGED <<lifecycleVars, r_phase, r_args, r_created, retryer, sleeps, pollVars>>

Next == Construct \/ Wait \/ Tick

Spec == Init /\ [][Next]_vars

\* ------------------------------------------------------ claims, Retryer

\* C1: for a Retryer built with 0 < initial_delay_secs < timeout_secs, in
\* either mode and however much time passes between the calls, the sleeps
\* performed add up to at most timeout_secs, and a wait() that returns
\* normally returns no later than timeout_instant.
C1_SleepsWithinTimeout ==
    r_phase = "ready" =>
        /\ SumSeq(sleeps) <= r_args.timeout_secs
        /\ (r_last = "wait_ok" => now <= r_created + r_args.timeout_secs)

\* C1 witness: two sleeps done, with time having passed outside them.
C1_Witness ==
    /\ r_last = "wait_ok"
    /\ Len(sleeps) >= 2
    /\ now > r_created + SumSeq(sleeps)

\* C2: a wait() called when now + sleep_secs > timeout_instant raises the
\* timeout without sleeping and leaves sleep_secs, successful_wait_count and
\* timeout_instant as they were.
C2_TimeoutLeavesRetryerUnchanged ==
    [][(/\ r_phase = "ready"
        /\ r_last' \in {"wait_ok", "wait_timeout"}
        /\ now + retryer.sleep_secs > retryer.timeout_instant)
       => (/\ r_last' = "wait_timeout"
           /\ now' = now
           /\ sleeps' = sleeps
           /\ retryer'.sleep_secs = retryer.sleep_secs
           /\ retryer'.successful_wait_count = retryer.successful_wait_count
           /\ retryer'.timeout_instant = retryer.timeout_instant)]_vars

\* C2 witness: a wait() has raised the timeout after earlier waits slept,
\* with the deadline itself not yet reached.
C2_Witness ==
    /\ r_last = "wait_timeout"
    /\ Len(sleeps) >= 1
    /\ now < retryer.timeout_instant

\* C3: the constructor raises exactly when initial_delay_secs <= 0 or
\* timeout_secs <= initial_delay_secs, and does so before any wait().
C3_ConstructorRejectsExactlyBadArgs ==
    r_phase # "new" =>
        /\ (r_phase = "value_error") <=>
               (\/ r_args.initial_delay_secs <= 0
                \/ r_args.timeout_secs <= r_args.initial_delay_secs)
        /\ (r_phase = "value_error" =>
               r_last = "init_error" /\ sleeps = <<>> /\ retryer = NoRetryer)

\* C3 witness: a positive delay equal to the timeout was rejected.
C3_Witness ==
    /\ r_phase = "value_error"
    /\ r_args.initial_delay_secs > 0
    /\ r_args.timeout_secs = r_args.initial_delay_secs

\* C4: in exponential mode the delays slept by successive successful waits
\* never decrease and none is longer than 5 seconds.
C4_ExponentialDelaysMonotoneCapped ==
    (r_phase = "ready" /\ retryer.exponential_backoff) =>
        \A i \in 1 .. Len(sleeps) :
            /\ sleeps[i] <= Secs(5)
            /\ (i > 1 => sleeps[i - 1] <= sleeps[i])

\* C5: after a wait() that returned normally the next delay is
\* min(2 * the delay just slept, 5 s) in exponential mode and
\* initial_delay_secs in fixed mode.
C5_NextDelay ==
    (r_phase = "ready" /\ Len(sleeps) > 0) =>
        retryer.sleep_secs =
            IF retryer.exponential_backoff
            THEN (IF 2 * sleeps[Len(sleeps)] <= Secs(5)
                  THEN 2 * sleeps[Len(sleeps)] ELSE Secs(5))
            ELSE r_args.initial_delay_secs

\* C5 witness: an exponential Retryer whose doubled delay hit the ceiling.
C5_Witness ==
    /\ r_last = "wait_ok"
    /\ retryer.exponential_backoff
    /\ 2 * sleeps[Len(sleeps)] > Secs(5)
    /\ retryer.sleep_secs = Secs(5)

\* C6: in every state of a constructed Retryer sleep_secs is positive and
\* timeout_instant is construction time + timeout_secs.
C6_DelayPositiveDeadlineFixed ==
    r_phase = "ready" =>
        /\ retryer.sleep_secs > 0
        /\ retryer.timeout_instant = r_created + r_args.timeout_secs

\* C6 witness: built after the clock had started, two waits later.
C6_Witness ==
    /\ r_phase = "ready"
    /\ r_created > 0
    /\ Len(sleeps) >= 2
    /\ r_last = "wait_timeout"

\* ------------------------------ polling waits and retried queries, running

\* The timeout_secs the polling waits are called with.
PollTimeouts == {Secs(k) : k \in 1 .. MaxPollTimeoutSecs}

InitPoll ==
    /\ now = 0
    /\ RetryerIdle
    /\ PollIdle
    /\ LifecycleIdle

\* A polling wait is called: it builds its Retryer and enters its loop.
\* SequencerController.wait_until_chain_at_height, EvmController.
\* wait_until_balance / wait_until_chain_at_height, Cli.wait_until_balance.
StartPoll ==
    /\ op = "none"
    /\ \E o \in PollingWaits, t \in PollTimeouts, wanted \in Values :
        /\ op' = o
        /\ timeout_arg' = t
        /\ target' = wanted
        /\ IF RetryerInitRaises(t, PollDelay)
           THEN /\ pc' = "raised"
                /\ result' = [kind |-> "ValueError", last_error |-> NoError,
                              count |-> 0]
                /\ retryer' = retryer
           ELSE /\ pc' = "query"
                /\ result' = result
                /\ retryer' = RetryerInit(now, t, PollDelay, FALSE)
    /\ UNCHANGED <<lifecycleVars, now, r_phase, r_args, r_created, r_last, sleeps, latest,
                   cmd_retryer, last_error, counts, chk>>

\* One pass of the loop body up to retryer.wait() in the waits that query
\* with a single request: try_get_last_block_height, get_balance,
\* _try_send_json_rpc_request("eth_getBlockByNumber", ...).
PollQuery ==
    /\ op \in PollingWaits \ {"cli_wait_until_balance"}
    /\ pc = "query"
    /\ \E d \in AttemptDurations :
        /\ now' = now + d
        /\ counts' = [counts EXCEPT !.attempts = @ + 1]
        /\ \/ \E e \in Errors :
                /\ last_error' = e
                /\ latest' = latest
                /\ pc' = IF op = "evm_wait_until_chain_at_height"
                             /\ ConditionMet(op, latest, target)
                          THEN "done" ELSE AfterQueryFailure(op)
                /\ result' = IF pc' = "exit" THEN SystemExit(e)
                              ELSE IF pc' = "done" THEN Returned ELSE result
           \/ \E v \in Values :
                /\ last_error' = last_error
                /\ latest' = v
                /\ pc' = IF ConditionMet(op, v, target) THEN "done" ELSE "wait"
                /\ result' = IF pc' = "done" THEN Returned ELSE result
    /\ UNCHANGED <<lifecycleVars, retryerVars, op, timeout_arg, target, cmd_retryer, chk>>

\* retryer.wait() in a polling wait, and the SystemExit when it times out.
PollWait ==
    /\ op \in PollingWaits
    /\ pc = "wait"
    /\ LET w == RetryerWait(retryer, now) IN
        /\ retryer' = w.retryer
        /\ now' = now + w.slept
        /\ sleeps' = IF w.raised THEN sleeps ELSE Append(sleeps, w.slept)
        /\ pc' = AfterWait(w.raised)
        /\ result' = IF w.raised THEN SystemExit(NoError) ELSE result
    /\ UNCHANGED <<lifecycleVars, r_phase, r_args, r_created, r_last, op, timeout_arg, target,
                   latest, cmd_retryer, last_error, counts, chk>>

\* A *_with_retry helper is called on its own.
StartQuery ==
    /\ op = "none"
    /\ \E o \in RetryingQueries :
        /\ op' = o
        /\ cmd_retryer' = RetryerInit(now, RetryTimeout(o), DefaultInitialDelay, TRUE)
    /\ pc' = "cmd_try"
    /\ counts' = [counts EXCEPT !.cmd_runs = 1]
    /\ UNCHANGED <<lifecycleVars, now, retryerVars, timeout_arg, target, latest, last_error,
                   result, chk>>

\* Cli.wait_until_balance's query: _try_get_balance calls
\* _try_exec_sequencer_command_with_retry, which builds a Retryer of its own.
CliPollQuery ==
    /\ op = "cli_wait_until_balance"
    /\ pc = "query"
    /\ cmd_retryer' = RetryerInit(now, RetryTimeout(op), DefaultInitialDelay, TRUE)
    /\ pc' = "cmd_try"
    /\ counts' = [counts EXCEPT
                      !.attempts = @ + 1, !.cmd_runs = @ + 1, !.cmd_attempts = 0,
                      !.reruns = IF counts.cmd_giveups > 0 THEN @ + 1 ELSE @]
    /\ UNCHANGED <<lifecycleVars, now, retryerVars, op, timeout_arg, target, latest,
                   last_error, result, chk>>

\* One attempt inside a *_with_retry loop. In Cli.wait_until_balance a
\* successful attempt's stdout is then parsed by _try_get_balance and the
\* balance compared.
CmdAttempt ==
    /\ UsesRetriedCommand(op)
    /\ pc = "cmd_try"
    /\ \E d \in AttemptDurations :
        /\ now' = now + d
        /\ \/ \E e \in Errors :
                /\ last_error' = e
                /\ counts' = [counts EXCEPT !.cmd_attempts = @ + 1]
                /\ pc' = "cmd_wait"
                /\ UNCHANGED <<latest, result>>
           \/ /\ op \in RetryingQueries
              /\ pc' = "done"
              /\ result' = Returned
              /\ UNCHANGED <<latest, last_error, counts>>
           \/ /\ op = "cli_wait_until_balance"
              /\ \E stdout \in Values \cup {Malformed} :
                    IF stdout = Malformed
                    THEN /\ pc' = AfterQueryFailure(op)
                         /\ result' = IF pc' = "exit" THEN SystemExit(NoError)
                                       ELSE result
                         /\ latest' = latest
                    ELSE /\ latest' = stdout
                         /\ pc' = IF ConditionMet(op, stdout, target)
                                   THEN "done" ELSE "wait"
                         /\ result' = IF pc' = "done" THEN Returned ELSE result
              /\ UNCHANGED <<last_error, counts>>
    /\ UNCHANGED <<lifecycleVars, retryerVars, op, timeout_arg, target, cmd_retryer, chk>>

\* retryer.wait() inside a *_with_retry loop; when it times out the helper
\* raises its RuntimeError, which Cli.wait_until_balance's
\* `except Exception` catches.
CmdWait ==
    /\ UsesRetriedCommand(op)
    /\ pc = "cmd_wait"
    /\ LET w == RetryerWait(cmd_retryer, now)
           err == GiveUpError(op, cmd_retryer, last_error) IN
        /\ cmd_retryer' = w.retryer
        /\ now' = now + w.slept
        /\ IF ~w.raised
           THEN /\ pc' = "cmd_try"
                /\ UNCHANGED <<result, counts>>
           ELSE /\ counts' = [counts EXCEPT !.cmd_giveups = @ + 1]
                /\ pc' = IF op \in RetryingQueries THEN "raised"
                          ELSE AfterQueryFailure(op)
                /\ result' = IF pc' = "raised" THEN err
                              ELSE IF pc' = "exit" THEN SystemExit(NoError)
                              ELSE result
    /\ UNCHANGED <<lifecycleVars, retryerVars, op, timeout_arg, target, latest, last_error, chk>>

\* _check_balance_post_ics20_transfer(cli, nodes, expected_balance) is called.
StartIcs20 ==
    /\ op = "none"
    /\ op' = "check_balance_post_ics20_transfer"
    /\ pc' = "query"
    /\ \E n \in 1 .. MaxNodes, expected_balance \in Values :
        /\ target' = expected_balance
        /\ chk' = [nodes |-> n, node |-> 1, tries |-> 0, delay |-> Secs(1),
                   unmet |-> {}]
    /\ UNCHANGED <<lifecycleVars, now, retryerVars, timeout_arg, latest, cmd_retryer,
                   last_error, result, counts>>

\* The loop variables once the inner `for _ in range(RETRIES)` is left for
\* node chk.node, by `break` (met) or by running out of iterations.
Ics20NextNode(c, met) ==
    [c EXCEPT !.node = IF c.node < c.nodes THEN @ + 1 ELSE @,
              !.tries = 0,
              !.unmet = IF met THEN @ ELSE @ \cup {c.node}]

\* The `except Exception` handler of that loop, entered on the iteration
\* counted in c.tries: time.sleep(delay); delay = min(delay * 2, 5); then the
\* next iteration, or the next node when the RETRIES iterations are used up.
Ics20AfterFailure(c) ==
    LET slept == [c EXCEPT !.tries = @ + 1, !.delay = Min(@ * 2, Secs(5))] IN
    IF slept.tries = RETRIES THEN Ics20NextNode(slept, FALSE) ELSE slept

\* Whether the handler above ends the whole check (last node, last iteration).
Ics20FailureEndsCheck(c) == c.tries + 1 = RETRIES /\ c.node = c.nodes

\* One iteration of the inner loop of _check_balance_post_ics20_transfer: the
\* balance query raises (as the two-parameter Cli._try_get_balance of this
\* repository does for the three-argument call) or returns a balance; a
\* wrong balance raises too; every exception is caught, slept on, retried.
Ics20Attempt ==
    /\ op = "check_balance_post_ics20_transfer"
    /\ pc = "query"
    /\ counts' = [counts EXCEPT !.attempts = @ + 1]
    /\ \E d \in AttemptDurations :
        \/ \E e \in Errors :
            /\ last_error' = e
            /\ latest' = latest
            /\ now' = now + d + chk.delay
            /\ chk' = Ics20AfterFailure(chk)
            /\ pc' = IF Ics20FailureEndsCheck(chk) THEN "done" ELSE "query"
        \/ \E actual \in Values \ {target} :
            /\ last_error' = last_error
            /\ latest' = actual
            /\ now' = now + d + chk.delay
            /\ chk' = Ics20AfterFailure(chk)
            /\ pc' = IF Ics20FailureEndsCheck(chk) THEN "done" ELSE "query"
        \/ /\ last_error' = last_error
           /\ latest' = target
           /\ now' = now + d
           /\ chk' = Ics20NextNode(chk, TRUE)
           /\ pc' = IF chk.node = chk.nodes THEN "done" ELSE "query"
    /\ result' = IF pc' = "done" THEN Returned ELSE result
    /\ UNCHANGED <<lifecycleVars, retryerVars, op, timeout_arg, target, cmd_retryer>>

NextPoll ==
    \/ StartPoll
    \/ PollQuery
    \/ PollWait
    \/ StartQuery
    \/ CliPollQuery
    \/ CmdAttempt
    \/ CmdWait
    \/ StartIcs20
    \/ Ics20Attempt

SpecPoll == InitPoll /\ [][NextPoll]_vars

\* The loops built on a Retryer: the polling waits and the retried queries.
NextRetryerLoops ==
    \/ StartPoll
    \/ PollQuery
    \/ PollWait
    \/ StartQuery
    \/ CliPollQuery
    \/ CmdAttempt
    \/ CmdWait

\* Those loops with every call they make returning: a query attempt and a
\* sleep each end, so the single thread always takes its next step.
SpecPollLive ==
    InitPoll /\ [][NextRetryerLoops]_vars /\ WF_vars(NextRetryerLoops)

\* ------------------------------------- claims, polling waits and retries

\* C7: in every polling wait a failed query attempt does not abort the
\* wait; the wait ends in an error only when its Retryer's budget is used
\* up, that is when retryer.wait() can no longer sleep.
C7_FailedQueryNeverAborts ==
    (op \in PollingWaits /\ pc = "exit") =>
        now + retryer.sleep_secs > retryer.timeout_instant

\* C8: no retrying check returns normally without its awaited condition:
\* a polling wait that returned saw the height or balance it waited for,
\* and _check_balance_post_ics20_transfer that returned saw the expected
\* balance on every node.
C8_ExhaustedBudgetIsFatal ==
    /\ (op \in {"seq_wait_until_chain_at_height",
                 "evm_wait_until_chain_at_height"} /\ pc = "done") =>
            (latest # None /\ latest >= target)
    /\ (op \in {"evm_wait_until_balance", "cli_wait_until_balance"}
            /\ pc = "done") =>
            (latest # None /\ latest = target)
    /\ (op = "check_balance_post_ics20_transfer" /\ pc = "done") =>
            chk.unmet = {}

C10_GiveUpErrorCarriesLastError ==
    (op \in RetryingQueries /\ pc = "raised") =>
        /\ result.kind = "RuntimeError"
        /\ last_error \in Errors
        /\ result.last_error = last_error

\* ------------------------------- one SequencerController being upgraded

\* The change infos a node reports while an upgrade to `height` is staged:
\* known and unknown change names, at that height or at another.
ReportedChangeInfos(height) ==
    [change_name : {"price_feed_change", "unknown_change"},
     activation_height : {height, height + 1},
     app_version : {1}]

RECURSIVE SeqsUpTo(_, _)
\* All sequences over S of length at most n.
SeqsUpTo(S, n) ==
    IF n = 0 THEN {<<>>}
    ELSE LET shorter == SeqsUpTo(S, n - 1) IN
         shorter \cup {Append(q, x) : q \in {t \in shorter : Len(t) = n - 1},
                                      x \in S}

InitUpgrade ==
    /\ now = 0
    /\ RetryerIdle
    /\ PollIdle
    /\ LifecycleIdle

\* A faulty variant: a failed height query leaves the earlier height in place.
AfterFailedHeightQuery_keeps(previous) == previous

\* The except branch of stage_upgrade.
AfterFailedHeightQuery(previous) == None

\* `if self.last_block_height_before_restart:` of wait_for_upgrade, and the
\* negation of stage_upgrade's test before it deletes the pod.
AwaitsRestart(last_block_height_before_restart) ==
    Truthy(last_block_height_before_restart)

\* A faulty variant: the crashed node is given the timeout of the other branch.
CrashedNodeTimeout_short(upgrade_activation_height) == 30

\* timeout_secs of wait_for_upgrade's else branch.
CrashedNodeTimeout(upgrade_activation_height) ==
    upgrade_activation_height * 10

\* timeout_secs after the restart has been awaited.
RestartedNodeTimeout(upgrade_activation_height, latest_block_height) ==
    Max((upgrade_activation_height - latest_block_height) * 10, 30)

\* The heights a wait_until_chain_at_height of wait_for_upgrade can hold
\* when it ends: its targets go up to a captured height + 2.
ObservedHeights == 0 .. MaxHeight + 2

\* A faulty variant: the wait returns on any height it could read.
ChainAtHeight_any_read(observed, height) == observed # None

\* Whether SequencerController.wait_until_chain_at_height(height, ...)
\* returns, given the last height its loop held (None: every query
\* failed): it breaks out only on a height >= the target and otherwise
\* runs into its SystemExit.
ChainAtHeight(observed, height) ==
    ConditionMet("seq_wait_until_chain_at_height", observed, height)

\* stage_upgrade(..., activation_height): the height query, helm upgrade
\* and, when no height is held, kubectl delete pod.  A subprocess that
\* fails ends the run.
StageUpgrade ==
    /\ up.pc \in {"idle", "upgraded"}
    /\ up.stages < MaxStages
    /\ \E activation_height \in ActivationHeights,
          queried \in Heights \cup {None},
          helm_ok \in BOOLEAN, delete_ok \in BOOLEAN :
        LET last == IF queried = None
                    THEN AfterFailedHeightQuery(
                             ctl.last_block_height_before_restart)
                    ELSE queried
            query == Call("try_get_last_block_height", None, None,
                          queried # None, queried)
            helm == Call("helm_upgrade",
                         HelmActivationHeight(activation_height), None,
                         helm_ok, None)
            delete == Call("kubectl_delete_pod", None, None, delete_ok, None)
            deletes == helm_ok /\ ~AwaitsRestart(last)
        IN  /\ (~deletes => delete_ok)
            /\ ctl' = [ctl EXCEPT !.last_block_height_before_restart = last]
            /\ calls' = IF deletes THEN <<query, helm, delete>>
                        ELSE <<query, helm>>
            /\ up' = [NoUp EXCEPT
                   !.pc = IF helm_ok /\ delete_ok THEN "staged" ELSE "exit",
                   !.upgrade_activation_height = activation_height,
                   !.raised = IF helm_ok /\ delete_ok THEN "none"
                              ELSE "SystemExit: subprocess failed",
                   !.stages = up.stages + 1,
                   !.previous = ctl.last_block_height_before_restart]
    /\ UNCHANGED <<helperVars, ci, drv, cmp, par, tk, br, av>>

\* wait_for_upgrade(upgrade_activation_height) up to its branch:
\* _wait_for_deploy(60), then the test of last_block_height_before_restart;
\* the else branch sets timeout_secs.
WaitForDeploy ==
    /\ up.pc = "staged"
    /\ \E rollout_ok \in BOOLEAN :
        /\ calls' = Append(calls, Call("wait_for_statefulset_rollout", None,
                                       60, rollout_ok, None))
        /\ up' = IF ~rollout_ok
                 THEN [up EXCEPT !.pc = "exit",
                                 !.raised = "SystemExit: failed to deploy"]
                 ELSE IF AwaitsRestart(ctl.last_block_height_before_restart)
                 THEN [up EXCEPT !.pc = "await_restart"]
                 ELSE [up EXCEPT
                          !.pc = "await_activation",
                          !.timeout_secs = CrashedNodeTimeout(
                                               up.upgrade_activation_height)]
    /\ UNCHANGED <<helperVars, ctl, ci, drv, cmp, par, tk, br, av>>

\* wait_until_chain_at_height(last_block_height_before_restart + 2, 60)
AwaitRestart ==
    /\ up.pc = "await_restart"
    /\ \E observed \in ObservedHeights \cup {None} :
        /\ calls' = Append(calls,
               Call("wait_until_chain_at_height",
                    ctl.last_block_height_before_restart + 2, 60,
                    ChainAtHeight(observed,
                        ctl.last_block_height_before_restart + 2),
                    observed))
        /\ up' = IF ChainAtHeight(observed,
                       ctl.last_block_height_before_restart + 2)
                 THEN [up EXCEPT !.pc = "get_latest"]
                 ELSE [up EXCEPT !.pc = "exit",
                                 !.raised = "SystemExit: timed out"]
    /\ UNCHANGED <<helperVars, ctl, ci, drv, cmp, par, tk, br, av>>

\* latest_block_height = self.get_last_block_height() and the test that
\* follows it; at or past activation height - 2 the checks are skipped.
GetLatest ==
    /\ up.pc = "get_latest"
    /\ \E got \in Heights \cup {None} :
        /\ calls' = Append(calls, Call("get_last_block_height", None, None,
                                       got # None, got))
        /\ up' = IF got = None
                 THEN [up EXCEPT !.pc = "exit",
                                 !.raised = "SystemExit: failed to get height"]
                 ELSE IF got < up.upgrade_activation_height - 2
                 THEN [up EXCEPT !.pc = "check_upgrades_info",
                                 !.latest_block_height = got]
                 ELSE [up EXCEPT
                          !.pc = "await_activation",
                          !.latest_block_height = got,
                          !.timeout_secs = RestartedNodeTimeout(
                              up.upgrade_activation_height, got)]
    /\ UNCHANGED <<helperVars, ctl, ci, drv, cmp, par, tk, br, av>>

\* get_upgrades_info(), the test of applied, and
\* check_change_infos(scheduled, upgrade_activation_height).
CheckUpgradesInfo ==
    /\ up.pc = "check_upgrades_info"
    /\ \/ /\ calls' = Append(calls, Call("get_upgrades_info", None, None,
                                         FALSE, None))
          /\ up' = [up EXCEPT !.pc = "exit",
                       !.raised = "SystemExit: failed to get upgrade info"]
       \/ \E applied \in SeqsUpTo(
                 ReportedChangeInfos(up.upgrade_activation_height), 1),
             scheduled \in SeqsUpTo(
                 ReportedChangeInfos(up.upgrade_activation_height),
                 MaxChangeInfos) :
            LET checked == check_change_infos(
                    scheduled, HeightsInt(up.upgrade_activation_height), None)
            IN  /\ calls' = Append(calls, Call("get_upgrades_info", None,
                                               None, TRUE, None))
                /\ up' = IF Len(applied) # 0
                         THEN [up EXCEPT
                                  !.pc = "exit",
                                  !.applied = applied,
                                  !.scheduled = scheduled,
                                  !.raised = "SystemExit: applied change infos"]
                         ELSE IF checked # Passed
                         THEN [up EXCEPT
                                  !.pc = "exit",
                                  !.applied = applied,
                                  !.scheduled = scheduled,
                                  !.raised = checked.raised]
                         ELSE [up EXCEPT
                                  !.pc = "await_activation",
                                  !.applied = applied,
                                  !.scheduled = scheduled,
                                  !.timeout_secs = RestartedNodeTimeout(
                                      up.upgrade_activation_height,
                                      up.latest_block_height)]
    /\ UNCHANGED <<helperVars, ctl, ci, drv, cmp, par, tk, br, av>>

\* wait_until_chain_at_height(upgrade_activation_height, timeout_secs), the
\* last statement of wait_for_upgrade.
AwaitActivation ==
    /\ up.pc = "await_activation"
    /\ \E observed \in ObservedHeights \cup {None} :
        /\ calls' = Append(calls,
               Call("wait_until_chain_at_height",
                    up.upgrade_activation_height, up.timeout_secs,
                    /\ ~RetryerInitRaises(Secs(up.timeout_secs), PollDelay)
                    /\ ChainAtHeight(observed, up.upgrade_activation_height),
                    observed))
        /\ up' = IF RetryerInitRaises(Secs(up.timeout_secs), PollDelay)
                 THEN [up EXCEPT !.pc = "exit", !.raised = "ValueError"]
                 ELSE IF ChainAtHeight(observed, up.upgrade_activation_height)
                 THEN [up EXCEPT !.pc = "upgraded"]
                 ELSE [up EXCEPT !.pc = "exit",
                                 !.raised = "SystemExit: timed out"]
    /\ UNCHANGED <<helperVars, ctl, ci, drv, cmp, par, tk, br, av>>

NextUpgrade ==
    \/ StageUpgrade
    \/ WaitForDeploy
    \/ AwaitRestart
    \/ GetLatest
    \/ CheckUpgradesInfo
    \/ AwaitActivation

SpecUpgrade == InitUpgrade /\ [][NextUpgrade]_vars

\* ----------------------------------------- the upgrade test's driver

\* NUM_NODES of sequencer_upgrade_test.py.
NUM_NODES == 5

\* block_height_difference of sequencer_upgrade_test.py.
block_height_difference == 10

\* nodes = [SequencerController(f"node{i}") for i in range(NUM_NODES - 1)],
\* each node written as its number.
InitialNodes == [i \in 1 .. NUM_NODES - 1 |-> i - 1]

\* The heights a node reports to the driver once the activation height is
\* set: below it, at it and above it.
DriverHeights == 0 .. 2 * MaxHeight + block_height_difference

\* One request of the driver to a node, as Call with the node's number.
NodeCall(node, name, height, timeout_secs, ok, value) ==
    [node |-> node, call |-> name, height |-> height,
     timeout_secs |-> timeout_secs, ok |-> ok, value |-> value]

\* A faulty variant: a read that fails ends the run as well.
StallCheckRaises_on_failed_read(read, upgrade_activation_height) ==
    read = None \/ read >= upgrade_activation_height

\* The try block of the stall check: SystemExit is raised, and passes the
\* `except Exception`, when the read returned a height at or past the
\* activation height; read is None when try_get_last_block_height raised.
StallCheckRaises(read, upgrade_activation_height) ==
    read # None /\ read >= upgrade_activation_height

\* A faulty variant: the catch-up timeout has no floor of 30 seconds.
CatchUpTimeout_no_floor(latest_block_height, upgrade_activation_height) ==
    (latest_block_height - upgrade_activation_height) * 10

\* timeout_secs of the catch-up wait of the node that missed the upgrade.
CatchUpTimeout(latest_block_height, upgrade_activation_height) ==
    Max((latest_block_height - upgrade_activation_height) * 10, 30)

\* A faulty variant: the node left out stays in the list.
AfterPop_keeps_last(nodes) == nodes

\* The list `nodes` once missed_upgrade_node = nodes.pop() has taken its
\* last element.
AfterPop(nodes) == SubSeq(nodes, 1, Len(nodes) - 1)

\* The driver's locals nodes, missed_upgrade_node, upgrade_activation_height,
\* latest_block_height and timeout_secs; i, the position of the staging
\* loop; tasks, the futures of wait_for_upgrade; log, the requests made
\* outside those futures.
DrvStart ==
    [pc |-> "start", nodes |-> InitialNodes, missed_upgrade_node |-> None,
     upgrade_activation_height |-> None, latest_block_height |-> None,
     timeout_secs |-> None, i |-> 0, tasks |-> <<>>, log |-> <<>>,
     raised |-> "none"]

InitDriver ==
    /\ now = 0
    /\ RetryerIdle
    /\ PollIdle
    /\ UpIdle
    /\ ci = NoCi
    /\ drv = DrvStart
    /\ cmp = NoCmp
    /\ par = NoPar
    /\ tk = NoTk
    /\ br = NoBr
    /\ av = NoAv

\* latest_block_height = nodes[0].get_last_block_height(), the activation
\* height that follows from it, and missed_upgrade_node = nodes.pop().
SetActivationHeight ==
    /\ drv.pc = "start"
    /\ \E got \in (1 .. MaxHeight) \cup {None} :
        drv' = IF got = None
               THEN [drv EXCEPT
                        !.pc = "exit",
                        !.raised = "SystemExit: failed to get height",
                        !.log = Append(@, NodeCall(drv.nodes[1],
                                    "get_last_block_height", None, None,
                                    FALSE, None))]
               ELSE [drv EXCEPT
                        !.pc = "staging",
                        !.latest_block_height = got,
                        !.upgrade_activation_height =
                            got + block_height_difference,
                        !.missed_upgrade_node = drv.nodes[Len(drv.nodes)],
                        !.nodes = AfterPop(drv.nodes),
                        !.i = 1,
                        !.log = Append(@, NodeCall(drv.nodes[1],
                                    "get_last_block_height", None, None,
                                    TRUE, got))]
    /\ UNCHANGED <<helperVars, upVars, ci, cmp, par, tk, br, av>>

\* One pass of `for node in nodes: node.stage_upgrade(...)`; after the
\* last node the driver submits one wait_for_upgrade future per node.
StageNext ==
    /\ drv.pc = "staging"
    /\ \E ok \in BOOLEAN :
        LET staged == NodeCall(drv.nodes[drv.i], "stage_upgrade",
                               drv.upgrade_activation_height, None, ok, None)
        IN  drv' = IF ~ok
                   THEN [drv EXCEPT !.pc = "exit",
                                    !.raised = "SystemExit: subprocess failed",
                                    !.log = Append(@, staged)]
                   ELSE IF drv.i < Len(drv.nodes)
                   THEN [drv EXCEPT !.i = @ + 1, !.log = Append(@, staged)]
                   ELSE [drv EXCEPT
                            !.pc = "waiting",
                            !.tasks = [k \in 1 .. Len(drv.nodes) |-> "running"],
                            !.log = Append(@, staged)]
    /\ UNCHANGED <<helperVars, upVars, ci, cmp, par, tk, br, av>>

\* One future's wait_for_upgrade(upgrade_activation_height) ends, by
\* returning or by raising.
TaskEnds ==
    /\ drv.pc \in {"waiting", "exit"}
    /\ \E k \in DOMAIN drv.tasks, how \in {"returned", "raised"} :
        /\ drv.tasks[k] = "running"
        /\ drv' = [drv EXCEPT !.tasks[k] = how]
    /\ UNCHANGED <<helperVars, upVars, ci, cmp, par, tk, br, av>>

\* concurrent.futures.wait(futures, return_when=FIRST_EXCEPTION) returns,
\* and result() is called on each future in `done`.
FuturesWaitReturns ==
    /\ drv.pc = "waiting"
    /\ \/ \E k \in DOMAIN drv.tasks : drv.tasks[k] = "raised"
       \/ \A k \in DOMAIN drv.tasks : drv.tasks[k] # "running"
    /\ drv' = IF \E k \in DOMAIN drv.tasks : drv.tasks[k] = "raised"
              THEN [drv EXCEPT !.pc = "exit",
                               !.raised = "SystemExit: wait_for_upgrade"]
              ELSE [drv EXCEPT !.pc = "stall_check"]
    /\ UNCHANGED <<helperVars, upVars, ci, cmp, par, tk, br, av>>

\* The try/except around missed_upgrade_node.try_get_last_block_height().
StallCheck ==
    /\ drv.pc = "stall_check"
    /\ \E read \in DriverHeights \cup {None} :
        LET request == NodeCall(drv.missed_upgrade_node,
                                "try_get_last_block_height", None, None,
                                read # None, read)
        IN  drv' = IF StallCheckRaises(read, drv.upgrade_activation_height)
                   THEN [drv EXCEPT
                            !.pc = "exit",
                            !.raised = "SystemExit: should be stalled but isn't",
                            !.log = Append(@, request)]
                   ELSE [drv EXCEPT !.pc = "missed_stage",
                                    !.log = Append(@, request)]
    /\ UNCHANGED <<helperVars, upVars, ci, cmp, par, tk, br, av>>

\* missed_upgrade_node.stage_upgrade(..., upgrade_activation_height)
StageMissed ==
    /\ drv.pc = "missed_stage"
    /\ \E ok \in BOOLEAN :
        drv' = [drv EXCEPT
                   !.pc = IF ok THEN "missed_wait" ELSE "exit",
                   !.raised = IF ok THEN @ ELSE "SystemExit: subprocess failed",
                   !.log = Append(@, NodeCall(drv.missed_upgrade_node,
                               "stage_upgrade", drv.upgrade_activation_height,
                               None, ok, None))]
    /\ UNCHANGED <<helperVars, upVars, ci, cmp, par, tk, br, av>>

\* missed_upgrade_node.wait_for_upgrade(upgrade_activation_height)
WaitMissed ==
    /\ drv.pc = "missed_wait"
    /\ \E ok \in BOOLEAN :
        drv' = [drv EXCEPT
                   !.pc = IF ok THEN "node0_height" ELSE "exit",
                   !.raised = IF ok THEN @ ELSE "SystemExit: wait_for_upgrade",
                   !.log = Append(@, NodeCall(drv.missed_upgrade_node,
                               "wait_for_upgrade",
                               drv.upgrade_activation_height, None, ok, None))]
    /\ UNCHANGED <<helperVars, upVars, ci, cmp, par, tk, br, av>>

\* latest_block_height = nodes[0].get_last_block_height() and the
\* timeout_secs computed from it.
GetCohortHeight ==
    /\ drv.pc = "node0_height"
    /\ \E got \in DriverHeights \cup {None} :
        drv' = IF got = None
               THEN [drv EXCEPT
                        !.pc = "exit",
                        !.raised = "SystemExit: failed to get height",
                        !.log = Append(@, NodeCall(drv.nodes[1],
                                    "get_last_block_height", None, None,
                                    FALSE, None))]
               ELSE [drv EXCEPT
                        !.pc = "catch_up",
                        !.latest_block_height = got,
                        !.timeout_secs = CatchUpTimeout(
                            got, drv.upgrade_activation_height),
                        !.log = Append(@, NodeCall(drv.nodes[1],
                                    "get_last_block_height", None, None,
                                    TRUE, got))]
    /\ UNCHANGED <<helperVars, upVars, ci, cmp, par, tk, br, av>>

\* missed_upgrade_node.wait_until_chain_at_height(latest_block_height,
\* timeout_secs), then nodes.append(missed_upgrade_node).
CatchUp ==
    /\ drv.pc = "catch_up"
    /\ \E reached \in BOOLEAN :
        LET request == NodeCall(drv.missed_upgrade_node,
                                "wait_until_chain_at_height",
                                drv.latest_block_height, drv.timeout_secs,
                                reached, None)
        IN  drv' = IF RetryerInitRaises(Secs(drv.timeout_secs), PollDelay)
                   THEN [drv EXCEPT !.pc = "exit", !.raised = "ValueError",
                                    !.log = Append(@, request)]
                   ELSE IF ~reached
                   THEN [drv EXCEPT !.pc = "exit",
                                    !.raised = "SystemExit: timed out",
                                    !.log = Append(@, request)]
                   ELSE [drv EXCEPT
                            !.pc = "rejoined",
                            !.nodes = Append(@, drv.missed_upgrade_node),
                            !.log = Append(@, request)]
    /\ UNCHANGED <<helperVars, upVars, ci, cmp, par, tk, br, av>>

NextDriver ==
    \/ SetActivationHeight
    \/ StageNext
    \/ TaskEnds
    \/ FuturesWaitReturns
    \/ StallCheck
    \/ StageMissed
    \/ WaitMissed
    \/ GetCohortHeight
    \/ CatchUp

SpecDriver == InitDriver /\ [][NextDriver]_vars

\* ------------------------------------------- check_change_infos, applied

\* The change infos, upgrade_heights and expected_app_version the function
\* is applied to: known and unknown change names, dicts with and without
\* each upgrade name, the bare int, and app versions None, 0 and above.
CheckedHeights == {1, 2}

CheckedChangeInfos ==
    [change_name : {"price_feed_change", "allow_ibc_relay_to_fail",
                    "unknown_change"},
     activation_height : CheckedHeights,
     app_version : {1, 2}]

CheckedUpgradeHeights ==
    {HeightsInt(h) : h \in CheckedHeights}
    \cup UNION {{HeightsDict(f) : f \in [names -> CheckedHeights]} :
                  names \in SUBSET {"aspen", "blackburn"}}

CheckedAppVersions == {None, 0, 1, 2}

InitChangeInfos ==
    /\ now = 0
    /\ RetryerIdle
    /\ PollIdle
    /\ UpIdle
    /\ drv = NoDrv
    /\ cmp = NoCmp
    /\ par = NoPar
    /\ tk = NoTk
    /\ br = NoBr
    /\ av = NoAv
    /\ \E change_infos \in SeqsUpTo(CheckedChangeInfos, MaxChangeInfos),
          upgrade_heights \in CheckedUpgradeHeights,
          expected_app_version \in CheckedAppVersions :
        ci = [phase |-> "called", change_infos |-> change_infos,
              upgrade_heights |-> upgrade_heights,
              expected_app_version |-> expected_app_version,
              outcome |-> Passed]

\* check_change_infos runs on its arguments.
CheckChangeInfos ==
    /\ ci.phase = "called"
    /\ ci' = [ci EXCEPT
              !.phase = "done",
              !.outcome = check_change_infos(ci.change_infos,
                              ci.upgrade_heights, ci.expected_app_version)]
    /\ UNCHANGED <<helperVars, upVars, drv, cmp, par, tk, br, av>>

NextChangeInfos == CheckChangeInfos

SpecChangeInfos == InitChangeInfos /\ [][NextChangeInfos]_vars

\* ------------------------------ the cohort compared with its first node

\* What a node reports for one accessor, as far as equality goes.
Observed == {"A", "B"}

\* The values each comparison loop reads from a node, in the order it
\* tests them; the name is the one its error message uses.
Accessors(comparison) ==
    CASE comparison = "before_upgrade" -> <<"block 1", "current app version">>
      [] comparison = "block_1_after" -> <<"block 1">>
      [] comparison = "change_infos" ->
             <<"applied upgrade changes", "scheduled upgrade changes">>

\* len(nodes) when the comparison runs: the new node has joined by the
\* time of the comparisons after the upgrade.
CohortSize(comparison) ==
    IF comparison = "before_upgrade" THEN NUM_NODES - 1 ELSE NUM_NODES

RECURSIVE FirstDifferenceFrom(_, _, _)
\* The first position from j on at which values differs from reference, 0
\* if there is none.
FirstDifferenceFrom(reference, values, j) ==
    IF j > Len(values) THEN 0
    ELSE IF values[j] # reference[j] THEN j
    ELSE FirstDifferenceFrom(reference, values, j + 1)

\* A faulty variant: only the first value of a node is compared.
FirstDifference_first_only(reference, values) ==
    IF values[1] # reference[1] THEN 1 ELSE 0

\* The `if ... != ...: raise SystemExit` tests of one pass of a comparison
\* loop, in order.
FirstDifference(reference, values) ==
    FirstDifferenceFrom(reference, values, 1)

InitCohort ==
    /\ now = 0
    /\ RetryerIdle
    /\ PollIdle
    /\ UpIdle
    /\ ci = NoCi
    /\ drv = NoDrv
    /\ cmp = NoCmp
    /\ par = NoPar
    /\ tk = NoTk
    /\ br = NoBr
    /\ av = NoAv

\* The values of nodes[0] are fetched: block_1_before and
\* app_version_before, block_1_after, or applied and scheduled.
FetchReference ==
    /\ cmp.pc = "idle"
    /\ \E comparison \in {"before_upgrade", "block_1_after", "change_infos"} :
        \E reference \in [1 .. Len(Accessors(comparison)) -> Observed] :
            cmp' = [cmp EXCEPT
                       !.pc = "comparing",
                       !.comparison = comparison,
                       !.accessors = Accessors(comparison),
                       !.size = CohortSize(comparison),
                       !.observed = <<reference>>]
    /\ UNCHANGED <<helperVars, upVars, ci, drv, par, tk, br, av>>

\* One pass of `for node in nodes[1:]`.  The loop before the upgrade makes
\* one request per value and stops at the first that differs;
\* get_upgrades_info returns applied and scheduled together.  A request
\* that fails ends the run.
CompareNext ==
    /\ cmp.pc = "comparing"
    /\ Len(cmp.observed) < cmp.size
    /\ \/ cmp' = [cmp EXCEPT !.pc = "request_failed",
                              !.message = "failed to get"]
       \/ \E values \in [1 .. Len(cmp.accessors) -> Observed] :
            LET differs == FirstDifference(cmp.observed[1], values)
                read == IF differs = 0 \/ cmp.comparison = "change_infos"
                        THEN values ELSE SubSeq(values, 1, differs)
            IN  cmp' = IF differs # 0
                       THEN [cmp EXCEPT
                                !.pc = "failed",
                                !.observed = Append(@, read),
                                !.named = Len(cmp.observed) + 1,
                                !.message = cmp.accessors[differs]]
                       ELSE [cmp EXCEPT
                                !.pc = IF Len(cmp.observed) + 1 = cmp.size
                                       THEN "passed" ELSE "comparing",
                                !.observed = Append(@, read)]
    /\ UNCHANGED <<helperVars, upVars, ci, drv, par, tk, br, av>>

NextCohort == FetchReference \/ CompareNext

SpecCohort == InitCohort /\ [][NextCohort]_vars

\* ------------------------------------------ the drivers' parallel phases

\* The parallel phases: sequencer_upgrade_test's deployment and its
\* wait_for_upgrade, smoke_test's deployment, multiple_hermes_relayer_test's
\* deployment.
Phases ==
    {"upgrade_test_deploy", "upgrade_test_wait_for_upgrade",
     "smoke_test_deploy", "hermes_test_deploy"}

\* The number of futures each phase submits; every executor has at least
\* as many workers, so each task starts when it is submitted.
PhaseTasks(phase) ==
    CASE phase = "upgrade_test_deploy" -> (NUM_NODES - 1) + 2
      [] phase = "upgrade_test_wait_for_upgrade" -> NUM_NODES - 2
      [] phase = "smoke_test_deploy" -> 2
      [] phase = "hermes_test_deploy" -> 3

\* The timeout handed to concurrent.futures.wait, None where none is.
PhaseTimeout(phase) ==
    IF phase \in {"smoke_test_deploy", "hermes_test_deploy"}
    THEN 600 ELSE None

\* A faulty variant: return_when=ALL_COMPLETED.
WaitMayReturn_all_completed(tasks) ==
    \A k \in DOMAIN tasks : tasks[k] # "running"

\* return_when=FIRST_EXCEPTION: wait returns once a future has finished by
\* raising, or once all have finished.
WaitMayReturn(tasks) ==
    \/ \E k \in DOMAIN tasks : tasks[k] = "raised"
    \/ \A k \in DOMAIN tasks : tasks[k] # "running"

\* `for completed_future in done: completed_future.result()`: the state of
\* the driver after the loop over the set `done`; one of the failures in
\* it is raised, whichever the iteration comes to first.
AfterResults(p, done) ==
    {[p EXCEPT !.pc = "exit", !.done = done, !.raised = k] :
         k \in {j \in done : p.tasks[j] = "raised"}}
    \cup (IF \E j \in done : p.tasks[j] = "raised" THEN {}
          ELSE {[p EXCEPT !.pc = "continued", !.done = done]})

InitPhase ==
    /\ now = 0
    /\ RetryerIdle
    /\ PollIdle
    /\ LifecycleIdle

\* The futures of a phase are submitted and the driver calls wait.
SubmitTasks ==
    /\ par.pc = "idle"
    /\ \E phase \in Phases :
        par' = [par EXCEPT
                   !.pc = "waiting",
                   !.phase = phase,
                   !.timeout = PhaseTimeout(phase),
                   !.tasks = [k \in 1 .. PhaseTasks(phase) |-> "running"]]
    /\ UNCHANGED <<helperVars, upVars, ci, drv, cmp, tk, br, av>>

\* One task ends, by returning or by raising; the worker threads go on
\* whatever the driver does.
PhaseTaskEnds ==
    /\ par.pc # "idle"
    /\ \E k \in DOMAIN par.tasks, how \in {"returned", "raised"} :
        /\ par.tasks[k] = "running"
        /\ par' = [par EXCEPT !.tasks[k] = how]
    /\ UNCHANGED <<helperVars, upVars, ci, drv, cmp, tk, br, av>>

\* wait returns because of return_when, and the results are collected.
WaitReturns ==
    /\ par.pc = "waiting"
    /\ WaitMayReturn(par.tasks)
    /\ par' \in AfterResults(par, {k \in DOMAIN par.tasks :
                                      par.tasks[k] # "running"})
    /\ UNCHANGED <<helperVars, upVars, ci, drv, cmp, tk, br, av>>

\* wait returns because its timeout has run out; the futures not done are
\* in the second set of the result, which the driver discards.
WaitTimesOut ==
    /\ par.pc = "waiting"
    /\ par.timeout # None
    /\ par' \in AfterResults(par, {k \in DOMAIN par.tasks :
                                      par.tasks[k] # "running"})
    /\ UNCHANGED <<helperVars, upVars, ci, drv, cmp, tk, br, av>>

NextPhase == SubmitTasks \/ PhaseTaskEnds \/ WaitReturns \/ WaitTimesOut

SpecPhase == InitPhase /\ [][NextPhase]_vars

\* -------------------------- the wait_for_upgrade tasks, side by side

\* What stage_upgrade left in each controller's
\* last_block_height_before_restart, the activation heights the tasks are
\* given, and the heights get_last_block_height returns to a task: one
\* below activation height - 2 and one not.
TaskCaptured == {None, 0, 1}

TaskActivationHeights == {3, 4}

TaskReads(upgrade_activation_height) == {0, upgrade_activation_height}

\* The state one task works on: the fields of its own controller, the
\* locals of its wait_for_upgrade, and the number of Retryers it has built.
TaskStart(captured) ==
    [pc |-> "staged", last_block_height_before_restart |-> captured,
     latest_block_height |-> None, timeout_secs |-> None, retryers |-> 0]

\* A faulty variant: last_block_height_before_restart is one attribute
\* shared by all controllers.
OwnState_shared(t, n) ==
    [t.own[n] EXCEPT !.last_block_height_before_restart =
                         t.own[1].last_block_height_before_restart]

\* What the task of the n-th node reads: self and its locals.
OwnState(t, n) == t.own[n]

\* The states wait_for_upgrade(upgrade_activation_height) can be in after
\* its next step, given the state it works on: the rollout wait and the
\* branch, the wait for the restart, get_last_block_height,
\* get_upgrades_info with its checks, the wait for the activation height.
\* Each helper that retries builds a Retryer of its own.
TaskSteps(own, upgrade_activation_height) ==
    LET exit == [own EXCEPT !.pc = "exit"]
        retried == [own EXCEPT !.retryers = @ + 1]
        some_scheduled_passes ==
            \E scheduled \in SeqsUpTo(
                   ReportedChangeInfos(upgrade_activation_height),
                   MaxChangeInfos) :
                check_change_infos(scheduled,
                    HeightsInt(upgrade_activation_height), None) = Passed
    IN  CASE own.pc = "staged" ->
                 {exit,
                  IF AwaitsRestart(own.last_block_height_before_restart)
                  THEN [own EXCEPT !.pc = "await_restart"]
                  ELSE [own EXCEPT
                           !.pc = "await_activation",
                           !.timeout_secs = CrashedNodeTimeout(
                                                upgrade_activation_height)]}
          [] own.pc = "await_restart" ->
                 {[retried EXCEPT !.pc = "exit"],
                  [retried EXCEPT !.pc = "get_latest"]}
          [] own.pc = "get_latest" ->
                 {[retried EXCEPT !.pc = "exit"]}
                 \cup {IF got < upgrade_activation_height - 2
                       THEN [retried EXCEPT !.pc = "check_upgrades_info",
                                            !.latest_block_height = got]
                       ELSE [retried EXCEPT
                                !.pc = "await_activation",
                                !.latest_block_height = got,
                                !.timeout_secs = RestartedNodeTimeout(
                                    upgrade_activation_height, got)] :
                       got \in TaskReads(upgrade_activation_height)}
          [] own.pc = "check_upgrades_info" ->
                 {[retried EXCEPT !.pc = "exit"]}
                 \cup (IF some_scheduled_passes
                       THEN {[retried EXCEPT
                                 !.pc = "await_activation",
                                 !.timeout_secs = RestartedNodeTimeout(
                                     upgrade_activation_height,
                                     own.latest_block_height)]}
                       ELSE {})
          [] own.pc = "await_activation" ->
                 {[retried EXCEPT !.pc = "exit"],
                  [retried EXCEPT !.pc = "upgraded"]}
          [] OTHER -> {}

InitTasks ==
    /\ now = 0
    /\ RetryerIdle
    /\ PollIdle
    /\ LifecycleIdle

\* futures = [executor.submit(wait_for_upgrade_fn, node) for node in nodes]
\* on the nodes staged before, the node left out not among them.
SubmitWaitTasks ==
    /\ tk.pc = "idle"
    /\ \E upgrade_activation_height \in TaskActivationHeights,
          captured \in [1 .. NUM_NODES - 2 -> TaskCaptured] :
        tk' = [pc |-> "running",
               upgrade_activation_height |-> upgrade_activation_height,
               own |-> [n \in 1 .. NUM_NODES - 2 |-> TaskStart(captured[n])]]
    /\ UNCHANGED <<helperVars, upVars, ci, drv, cmp, par, br, av>>

\* One task takes its next step.
TaskStep ==
    /\ tk.pc = "running"
    /\ \E n \in DOMAIN tk.own :
        \E next \in TaskSteps(OwnState(tk, n), tk.upgrade_activation_height) :
            tk' = [tk EXCEPT !.own[n] = next]
    /\ UNCHANGED <<helperVars, upVars, ci, drv, cmp, par, br, av>>

NextTasks == SubmitWaitTasks \/ TaskStep

SpecTasks == InitTasks /\ [][NextTasks]_vars

\* ------------------------- _check_bridge_account_deposits_disabled

\* The names a statement of _check_bridge_account_deposits_disabled can
\* use: its parameters and what the module imports or defines.
NamesInScope ==
    {"cli", "nodes", "time", "colored", "RETRIES",
     "SEQUENCER_IBC_TRANSFER_DESTINATION_ADDRESS", "EVM_DESTINATION_ADDRESS",
     "SEQUENCER_FUNDS_SIGNING_KEY", "TRANSFER_AMOUNT", "BASE_AMOUNT",
     "SEQUENCER_BRIDGE_ADDRESS", "assert_pre_upgrade_conditions",
     "assert_post_upgrade_conditions",
     "_check_bridge_account_deposits_disabled",
     "_check_balance_post_ics20_transfer"}

\* The names the call in the try block evaluates for its arguments.
LockArgumentNames ==
    {"cli", "SEQUENCER_BRIDGE_ADDRESS", "TRANSFER_AMOUNT", "BASE_AMOUNT",
     "EVM_DESTINATION_ADDRESS", "SEQUENCER_FUNDS_SIGNING_KEY", "node"}

\* Whether evaluating the arguments raises NameError.
ArgumentsRaiseNameError == \E name \in LockArgumentNames : name \notin NamesInScope

\* The attempts one _try_exec_sequencer_command_with_retry can make within
\* its ten seconds when every attempt fails at once: the sleeps of 0.4,
\* 0.8, 1.6 and 3.2 seconds fit, the fifth does not.
LockAttempts == 1 .. 5

\* One command of the check, as it reached the cli.
BridgeCommand(name, sequencer_name, attempts, ok) ==
    [call |-> name, sequencer_name |-> sequencer_name, attempts |-> attempts,
     ok |-> ok]

InitBridge ==
    /\ now = 0
    /\ RetryerIdle
    /\ PollIdle
    /\ UpIdle
    /\ ci = NoCi
    /\ drv = NoDrv
    /\ cmp = NoCmp
    /\ par = NoPar
    /\ tk = NoTk
    /\ av = NoAv
    /\ \E enabled \in BOOLEAN :
        br = [NoBr EXCEPT !.pc = "start", !.node0 = "node0",
                          !.deposits_enabled = enabled]

\* cli.bridge_lock(nodes[0].name): the retried command, whose give-up
\* error bridge_lock turns into SystemExit.  The chain refuses the lock
\* when deposits are disabled.
BridgeLockBefore ==
    /\ br.pc = "start"
    /\ \E attempts \in LockAttempts, ok \in BOOLEAN :
        /\ ok => br.deposits_enabled
        /\ ~ok => attempts = 5
        /\ br' = [br EXCEPT
                     !.pc = IF ok THEN "locked" ELSE "exit",
                     !.raised = IF ok THEN @ ELSE "SystemExit",
                     !.log = Append(@, BridgeCommand("bridge-lock", br.node0,
                                                     attempts, ok))]
    /\ UNCHANGED <<helperVars, upVars, ci, drv, cmp, par, tk, av>>

\* cli.bridge_sudo_change(nodes[0].name, disable_deposits=True); whether
\* the chain then refuses deposits is the chain's doing.
BridgeSudoChange ==
    /\ br.pc = "locked"
    /\ \E attempts \in LockAttempts, ok \in BOOLEAN, still_enabled \in BOOLEAN :
        /\ ~ok => (attempts = 5 /\ still_enabled)
        /\ br' = [br EXCEPT
                     !.pc = IF ok THEN "disabling_done" ELSE "exit",
                     !.raised = IF ok THEN @ ELSE "SystemExit",
                     !.deposits_enabled = still_enabled,
                     !.log = Append(@, BridgeCommand("bridge-sudo-change",
                                                     br.node0, attempts, ok))]
    /\ UNCHANGED <<helperVars, upVars, ci, drv, cmp, par, tk, av>>

\* The try block: the arguments of cli._try_exec_sequencer_command are
\* evaluated, the command runs once, and SystemExit is raised if it
\* returned; `except Exception` catches whatever else was raised.
BridgeLockAfter ==
    /\ br.pc = "disabling_done"
    /\ IF ArgumentsRaiseNameError
       THEN br' = [br EXCEPT !.pc = "passed", !.caught = "NameError"]
       ELSE \E ok \in BOOLEAN :
            /\ ok => br.deposits_enabled
            /\ br' = [br EXCEPT
                         !.pc = IF ok THEN "exit" ELSE "passed",
                         !.raised = IF ok THEN "SystemExit" ELSE @,
                         !.caught = IF ok THEN @ ELSE "DockerException",
                         !.log = Append(@, BridgeCommand("bridge-lock",
                                                         br.node0, 1, ok))]
    /\ UNCHANGED <<helperVars, upVars, ci, drv, cmp, par, tk, av>>

NextBridge == BridgeLockBefore \/ BridgeSudoChange \/ BridgeLockAfter

SpecBridge == InitBridge /\ [][NextBridge]_vars

\* ------------------------------- the app version check after the upgrade

\* The app versions a node can report: the version before the upgrade is
\* the index of the upgrade in UPGRADE_CHANGES + 1, and each upgrade
\* raises it by one.
AppVersions == 1 .. Len(UpgradeNames) + 1

\* A faulty variant: only a version below the one before the upgrade counts as unchanged.
VersionUnchanged_below_only(read, app_version_before) == read < app_version_before

\* `node.get_current_app_version() <= app_version_before`
VersionUnchanged(read, app_version_before) == read <= app_version_before

InitAppVersion ==
    /\ now = 0
    /\ RetryerIdle
    /\ PollIdle
    /\ UpIdle
    /\ ci = NoCi
    /\ drv = NoDrv
    /\ cmp = NoCmp
    /\ par = NoPar
    /\ tk = NoTk
    /\ br = NoBr
    /\ \E before \in 1 .. Len(UpgradeNames) :
        av = [NoAv EXCEPT !.pc = "start", !.app_version_before = before]

\* app_version_after = nodes[0].get_current_app_version(); a request that
\* fails ends the run.
ReadAppVersionAfter ==
    /\ av.pc = "start"
    /\ \/ av' = [av EXCEPT !.pc = "exit",
                            !.raised = "failed to get current app version"]
       \/ \E read \in AppVersions :
            av' = [av EXCEPT !.pc = "comparing", !.app_version_after = read,
                             !.i = 1]
    /\ UNCHANGED <<helperVars, upVars, ci, drv, cmp, par, tk, br>>

\* One pass of `for node in nodes[1:]`: the node is asked for its app
\* version once for each test; what it reports never goes down from one
\* request to the next.
CheckAppVersion ==
    /\ av.pc = "comparing"
    /\ \/ av' = [av EXCEPT !.pc = "exit",
                            !.raised = "failed to get current app version"]
       \/ \E first \in AppVersions :
            IF VersionUnchanged(first, av.app_version_before)
            THEN av' = [av EXCEPT !.pc = "exit",
                                  !.reads = Append(@, <<first>>),
                                  !.raised = "app version unchanged"]
            ELSE \/ av' = [av EXCEPT
                               !.pc = "exit",
                               !.reads = Append(@, <<first>>),
                               !.raised = "failed to get current app version"]
                 \/ \E second \in {v \in AppVersions : v >= first} :
                      av' = IF second # av.app_version_after
                            THEN [av EXCEPT
                                     !.pc = "exit",
                                     !.reads = Append(@, <<first, second>>),
                                     !.raised = "different values for app version"]
                            ELSE [av EXCEPT
                                     !.pc = IF av.i = NUM_NODES - 1
                                            THEN "passed" ELSE "comparing",
                                     !.i = @ + 1,
                                     !.reads = Append(@, <<first, second>>)]
    /\ UNCHANGED <<helperVars, upVars, ci, drv, cmp, par, tk, br>>

NextAppVersion == ReadAppVersionAfter \/ CheckAppVersion

SpecAppVersion == InitAppVersion /\ [][NextAppVersion]_vars

\* ------------------------------------- claims, the fixed one-second loop

\* C11: SequencerController.wait_until_chain_at_height returns at the first
\* attempt whose height is >= the target: while it has not returned, no
\* height it has read satisfies the target; when it returns after k
\* attempts it has slept k - 1 times, one second each, and holds the
\* satisfying height; and it gives up only when one more second does not
\* fit in the timeout.
C11_ReturnsAtFirstSatisfyingAttempt ==
    op = "seq_wait_until_chain_at_height" =>
        /\ (pc \in {"query", "wait", "exit"} =>
               (latest = None \/ latest < target))
        /\ (pc = "done" =>
               /\ latest # None /\ latest >= target
               /\ counts.attempts = Len(sleeps) + 1
               /\ retryer.successful_wait_count = Len(sleeps)
               /\ \A i \in 1 .. Len(sleeps) : sleeps[i] = Secs(1))
        /\ (pc = "exit" =>
               now + Secs(1) > retryer.timeout_instant)

\* C11 witness: the wait returned on its third attempt, after an attempt
\* that failed and one that read a lower height.
C11_Witness ==
    /\ op = "seq_wait_until_chain_at_height"
    /\ pc = "done"
    /\ counts.attempts = 3
    /\ Len(sleeps) = 2
    /\ last_error # NoError
    /\ latest >= target
    /\ target > 0

\* C12: a Retryer(timeout_secs=10, initial_delay_secs=1,
\* exponential_backoff=False) whose waits follow one another with no time
\* passing in between never raises the timeout within its first five
\* waits, and after the fifth it has slept five times one second, counts 5
\* successful waits and has 5 seconds remaining.
C12_FiveFixedWaitsLeaveFiveSeconds ==
    (/\ r_phase = "ready"
     /\ r_args = [timeout_secs |-> Secs(10), initial_delay_secs |-> Secs(1)]
     /\ ~retryer.exponential_backoff
     /\ now = r_created + SumSeq(sleeps)
     /\ Len(sleeps) <= 5) =>
        /\ r_last # "wait_timeout"
        /\ (Len(sleeps) = 5 =>
               /\ sleeps = <<Secs(1), Secs(1), Secs(1), Secs(1), Secs(1)>>
               /\ retryer.successful_wait_count = 5
               /\ SecondsRemaining(retryer, now) = Secs(5))

\* C12 witness: the fifth wait of that Retryer has returned.
C12_Witness ==
    /\ r_phase = "ready"
    /\ r_args = [timeout_secs |-> Secs(10), initial_delay_secs |-> Secs(1)]
    /\ ~retryer.exponential_backoff
    /\ now = r_created + SumSeq(sleeps)
    /\ Len(sleeps) = 5
    /\ r_last = "wait_ok"

\* ------------------------------------------ claims, staging and waiting

\* C13: stage_upgrade does not fail on account of its height query: when
\* the query fails last_block_height_before_restart is None whatever it was
\* before, when it succeeds it is the height the query returned; either
\* way helm upgrade is issued next with the given activation height, and
\* the call fails only if a subprocess it ran failed.
C13_FailedHeightQueryIsNotFatal ==
    calls # <<>> =>
        /\ calls[1].call = "try_get_last_block_height"
        /\ ctl.last_block_height_before_restart =
               (IF calls[1].ok THEN calls[1].value ELSE None)
        /\ Len(calls) >= 2
        /\ calls[2].call = "helm_upgrade"
        /\ calls[2].height = up.upgrade_activation_height
        /\ (calls[Len(calls)].call \in {"helm_upgrade", "kubectl_delete_pod"}
               => /\ up.pc \in {"staged", "exit"}
                  /\ up.pc = "exit" <=> ~calls[Len(calls)].ok)

\* C13 witness: a second stage_upgrade whose height query failed replaced
\* the height captured by the first and left the node staged.
C13_Witness ==
    /\ up.stages = 2
    /\ up.previous # None
    /\ up.previous > 0
    /\ ~calls[1].ok
    /\ ctl.last_block_height_before_restart = None
    /\ up.pc = "staged"

\* C14: whenever stage_upgrade captured a height h, for every h >= 0, the
\* first wait_until_chain_at_height of the following wait_for_upgrade is
\* the one for h + 2, and no upgrades-info query comes before it.
C14_RestartAwaitedFirst ==
    (calls # <<>> /\ calls[1].ok) =>
        \A i \in 1 .. Len(calls) :
            calls[i].call \in {"wait_until_chain_at_height",
                               "get_upgrades_info"}
            => \E j \in 1 .. i :
                   /\ calls[j].call = "wait_until_chain_at_height"
                   /\ calls[j].height = calls[1].value + 2
                   /\ \A k \in 1 .. j - 1 :
                          calls[k].call \notin {"wait_until_chain_at_height",
                                                "get_upgrades_info"}

\* C15: right after the upgrades info has been fetched (height captured,
\* latest height below activation height - 2), wait_for_upgrade has failed
\* exactly when an applied change info was reported, or the scheduled list
\* was empty or held a record with another activation height; otherwise it
\* goes on to wait for the activation height.
C15_ScheduledCheckedBeforeActivation ==
    (/\ calls # <<>>
     /\ calls[Len(calls)].call = "get_upgrades_info"
     /\ calls[Len(calls)].ok) =>
        /\ up.pc \in {"exit", "await_activation"}
        /\ up.pc = "exit" <=>
               \/ Len(up.applied) # 0
               \/ up.scheduled = <<>>
               \/ \E i \in 1 .. Len(up.scheduled) :
                      up.scheduled[i].activation_height
                          # up.upgrade_activation_height

\* C16: when stage_upgrade captured no height (None), wait_for_upgrade
\* asks for no height and no upgrades info and checks no change infos:
\* after the rollout its only request is the wait for
\* upgrade_activation_height, with a timeout of
\* upgrade_activation_height * 10 seconds.
C16_CrashedNodeWaitsStraightForActivation ==
    (/\ ctl.last_block_height_before_restart = None
     /\ Len(calls) >= 4
     /\ calls[4].ok) =>
        /\ calls[4].call = "wait_for_statefulset_rollout"
        /\ up.timeout_secs = up.upgrade_activation_height * 10
        /\ up.applied = <<>> /\ up.scheduled = <<>>
        /\ up.latest_block_height = None
        /\ Len(calls) <= 5
        /\ (Len(calls) = 4 <=> up.pc = "await_activation")
        /\ (Len(calls) = 5 =>
               /\ calls[5].call = "wait_until_chain_at_height"
               /\ calls[5].height = up.upgrade_activation_height
               /\ calls[5].timeout_secs = up.upgrade_activation_height * 10)

\* C16 witness: a node whose height query failed at staging has reached
\* the activation height.
C16_Witness ==
    /\ ctl.last_block_height_before_restart = None
    /\ Len(calls) = 5
    /\ ~calls[1].ok
    /\ calls[5].ok
    /\ up.upgrade_activation_height > 3
    /\ up.pc = "upgraded"

\* --------------------------------- claims, the node that missed the upgrade

\* C17: the stall check ends the run with an error exactly when its height
\* read succeeded with a height >= upgrade_activation_height; after a read
\* that failed, or one below the activation height, the driver goes on to
\* stage the upgrade on that node.
C17_StallCheckFailsOnlyOnLiveNode ==
    \A i \in 1 .. Len(drv.log) :
        drv.log[i].call = "try_get_last_block_height" =>
            LET live == /\ drv.log[i].ok
                        /\ drv.log[i].value >= drv.upgrade_activation_height
            IN  /\ drv.log[i].node = drv.missed_upgrade_node
                /\ (i = Len(drv.log) =>
                       /\ live <=> drv.pc = "exit"
                       /\ ~live <=> drv.pc = "missed_stage")
                /\ (i < Len(drv.log) =>
                       /\ ~live
                       /\ drv.log[i + 1].call = "stage_upgrade"
                       /\ drv.log[i + 1].node = drv.missed_upgrade_node)

\* C17 witness: the read of the stalled node failed and the node has been
\* staged.
C17_Witness ==
    /\ Len(drv.log) >= 2
    /\ drv.log[Len(drv.log) - 1].call = "try_get_last_block_height"
    /\ ~drv.log[Len(drv.log) - 1].ok
    /\ drv.log[Len(drv.log)].call = "stage_upgrade"
    /\ drv.log[Len(drv.log)].ok
    /\ drv.pc = "missed_wait"

\* C18: for the node that missed the upgrade the driver runs stage_upgrade,
\* then wait_for_upgrade(upgrade_activation_height), then reads node0's
\* height h and waits for the node to reach h with a timeout of
\* max((h - upgrade_activation_height) * 10, 30) seconds, each only after
\* the one before succeeded; the node is back in `nodes` exactly when that
\* last wait has succeeded.
C18_MissedNodeCatchesUpBeforeRejoining ==
    drv.missed_upgrade_node # None =>
        LET missed == drv.missed_upgrade_node
            height == drv.upgrade_activation_height
            n == Len(drv.log)
        IN  /\ \A i \in 1 .. n :
                   (drv.log[i].node = missed
                        /\ drv.log[i].call = "wait_for_upgrade") =>
                       /\ i > 1
                       /\ drv.log[i - 1] = NodeCall(missed, "stage_upgrade",
                                               height, None, TRUE, None)
                       /\ drv.log[i].height = height
            /\ \A i \in 1 .. n :
                   drv.log[i].call = "wait_until_chain_at_height" =>
                       /\ i > 2
                       /\ drv.log[i].node = missed
                       /\ drv.log[i - 2] = NodeCall(missed, "wait_for_upgrade",
                                               height, None, TRUE, None)
                       /\ drv.log[i - 1].call = "get_last_block_height"
                       /\ drv.log[i - 1].node = drv.nodes[1]
                       /\ drv.log[i - 1].ok
                       /\ drv.log[i].height = drv.log[i - 1].value
                       /\ drv.log[i].timeout_secs =
                              (IF (drv.log[i].height - height) * 10 > 30
                               THEN (drv.log[i].height - height) * 10 ELSE 30)
            /\ (\E k \in 1 .. Len(drv.nodes) : drv.nodes[k] = missed)
                   <=> (/\ n > 0
                        /\ drv.log[n].call = "wait_until_chain_at_height"
                        /\ drv.log[n].ok)

\* C18 witness: the node is back in the cohort after a catch-up wait over
\* a gap of more than three blocks.
C18_Witness ==
    /\ drv.pc = "rejoined"
    /\ drv.nodes[Len(drv.nodes)] = drv.missed_upgrade_node
    /\ drv.timeout_secs > 30
    /\ drv.latest_block_height > drv.upgrade_activation_height + 3

\* ------------------------------------------- claims, cohort and change infos

\* C19: a comparison of the cohort fails exactly when some node's observed
\* value differs from the first node's, and the error names that node; it
\* passes when every node was observed and none differed.  In particular
\* [A, A, B] fails naming the third node and [A, A, A] does not fail.
C19_ComparisonNamesDivergentNode ==
    LET Differs(k) ==
            \E j \in 1 .. Len(cmp.observed[k]) :
                cmp.observed[k][j] # cmp.observed[1][j]
    IN  cmp.pc \in {"comparing", "passed", "failed"} =>
            /\ cmp.pc = "failed" <=> \E k \in 1 .. Len(cmp.observed) : Differs(k)
            /\ (cmp.pc = "failed" =>
                   /\ Differs(cmp.named)
                   /\ \A k \in 1 .. Len(cmp.observed) :
                          Differs(k) => k = cmp.named
                   /\ \E j \in 1 .. Len(cmp.accessors) :
                          /\ cmp.message = cmp.accessors[j]
                          /\ cmp.observed[cmp.named][j]
                                 # cmp.observed[1][j])
            /\ (cmp.pc = "passed" <=>
                   /\ Len(cmp.observed) = cmp.size
                   /\ \A k \in 1 .. Len(cmp.observed) : ~Differs(k))

\* C19 witness: the first two nodes agreed on both values and the
\* comparison failed on the second value of the third node.
C19_Witness ==
    /\ cmp.pc = "failed"
    /\ cmp.named = 3
    /\ cmp.observed = <<<<"A", "B">>, <<"A", "B">>, <<"A", "A">>>>
    /\ cmp.message = "current app version"

\* C20: check_change_infos called with an empty change-info list fails,
\* whatever upgrade_heights and expected_app_version are.
C20_EmptyListAlwaysFails ==
    (ci.phase = "done" /\ ci.change_infos = <<>>) =>
        /\ ci.outcome.raised = "SystemExit"
        /\ ci.outcome.message = "no upgrade change info reported"

\* C20 witness: the empty list was rejected with a dict of both upgrade
\* heights and no expected app version.
C20_Witness ==
    /\ ci.phase = "done"
    /\ ci.change_infos = <<>>
    /\ ci.upgrade_heights.kind = "dict"
    /\ DOMAIN ci.upgrade_heights.map = {"aspen", "blackburn"}
    /\ ci.expected_app_version = None
    /\ ci.outcome.raised = "SystemExit"

\* ----------------------------------------- claims, check_change_infos

\* C21: a list that holds a record, at whatever position, whose change_name
\* is in no group of UPGRADE_CHANGES never passes; when every record before
\* the first such record is valid, the call ends with the SystemExit about
\* an unexpected change name, raised for that record.
C21_UnknownChangeNameFails ==
    LET infos == ci.change_infos
        heights == ci.upgrade_heights
        Known(i) == \E g \in DOMAIN UPGRADE_CHANGES :
                        infos[i].change_name \in UPGRADE_CHANGES[g]
        Group(i) == CHOOSE g \in DOMAIN UPGRADE_CHANGES :
                        infos[i].change_name \in UPGRADE_CHANGES[g]
        Valid(i) == /\ Known(i)
                    /\ heights.kind = "dict"
                    /\ Group(i) \in DOMAIN heights.map
                    /\ infos[i].activation_height = heights.map[Group(i)]
    IN  ci.phase = "done" =>
            \A i \in 1 .. Len(infos) :
                ~Known(i) =>
                    /\ ci.outcome.raised # "none"
                    /\ ((\A k \in 1 .. i - 1 : Valid(k)) =>
                           ci.outcome =
                               Raised("SystemExit", "unexpected change name", i))

\* C21 witness: a valid record followed by one with an unknown change name
\* was rejected for the second record.
C21_Witness ==
    /\ ci.phase = "done"
    /\ Len(ci.change_infos) = 2
    /\ ci.change_infos[1].change_name = "allow_ibc_relay_to_fail"
    /\ ci.change_infos[2].change_name = "unknown_change"
    /\ ci.outcome = Raised("SystemExit", "unexpected change name", 2)

\* C22: with upgrade_heights a dict that holds the group's height, a list
\* that holds a record of a known group whose activation_height is not the
\* group's expected height never passes; when every record before the
\* first such record is valid, the call ends with the SystemExit about the
\* activation height, raised for that record.
C22_WrongActivationHeightFails ==
    LET infos == ci.change_infos
        heights == ci.upgrade_heights
        Known(i) == \E g \in DOMAIN UPGRADE_CHANGES :
                        infos[i].change_name \in UPGRADE_CHANGES[g]
        Group(i) == CHOOSE g \in DOMAIN UPGRADE_CHANGES :
                        infos[i].change_name \in UPGRADE_CHANGES[g]
        Expected(i) == /\ Known(i)
                       /\ heights.kind = "dict"
                       /\ Group(i) \in DOMAIN heights.map
        Valid(i) == /\ Expected(i)
                    /\ infos[i].activation_height = heights.map[Group(i)]
    IN  ci.phase = "done" =>
            \A i \in 1 .. Len(infos) :
                (Expected(i) /\ ~Valid(i)) =>
                    /\ ci.outcome.raised # "none"
                    /\ ((\A k \in 1 .. i - 1 : Valid(k)) =>
                           ci.outcome =
                               Raised("SystemExit", "activation height", i))

\* C22 witness: the second of two records of different groups had another
\* height than its group's and was rejected.
C22_Witness ==
    /\ ci.phase = "done"
    /\ Len(ci.change_infos) = 2
    /\ ci.change_infos[1].change_name = "price_feed_change"
    /\ ci.change_infos[2].change_name = "allow_ibc_relay_to_fail"
    /\ ci.upgrade_heights.kind = "dict"
    /\ DOMAIN ci.upgrade_heights.map = {"aspen", "blackburn"}
    /\ ci.upgrade_heights.map["aspen"] # ci.upgrade_heights.map["blackburn"]
    /\ ci.outcome = Raised("SystemExit", "activation height", 2)

C27_ChangeNamesInOneGroup ==
    /\ \A g \in DOMAIN UPGRADE_CHANGES :
           \A name \in UPGRADE_CHANGES[g] :
               /\ Cardinality({h \in DOMAIN UPGRADE_CHANGES :
                                  name \in UPGRADE_CHANGES[h]}) = 1
               /\ FindUpgradeName(name, 1) = g
    /\ \A i \in 1 .. Len(ci.change_infos) :
           \A g \in DOMAIN UPGRADE_CHANGES :
               ci.change_infos[i].change_name \in UPGRADE_CHANGES[g]
                   => FindUpgradeName(ci.change_infos[i].change_name, 1) = g

\* C27 witness: records of both upgrades, the second upgrade's first, have
\* passed against a dict with a different height for each upgrade.
C27_Witness ==
    /\ ci.phase = "done"
    /\ Len(ci.change_infos) = 2
    /\ ci.change_infos[1].change_name = "allow_ibc_relay_to_fail"
    /\ ci.change_infos[2].change_name = "price_feed_change"
    /\ ci.upgrade_heights.kind = "dict"
    /\ DOMAIN ci.upgrade_heights.map = {"aspen", "blackburn"}
    /\ ci.upgrade_heights.map["aspen"] # ci.upgrade_heights.map["blackburn"]
    /\ ci.outcome = Passed

\* ------------------------------------------------ claims, parallel phases

\* C24: in every parallel phase the driver goes on to its next step only
\* when every submitted task has returned without error, and when it has
\* gone on no task of the phase has failed or fails later unraised.
C24_ContinuesOnlyWhenAllTasksSucceeded ==
    par.pc = "continued" =>
        \A k \in DOMAIN par.tasks : par.tasks[k] = "returned"

\* C25: while the driver waits and a task has failed, its wait can return
\* at once and the driver then raises a failure, whatever the other tasks
\* are doing; the failure it raises is that of a task that failed.
C25_FailureEndsTheWaitAtOnce ==
    /\ (par.pc = "waiting" /\ \E k \in DOMAIN par.tasks : par.tasks[k] = "raised")
           => ENABLED (WaitReturns /\ par'.pc = "exit")
    /\ (par.pc = "exit" => par.tasks[par.raised] = "raised")

\* C25 witness: the driver has raised the failure of one task while another
\* task of the phase is still running.
C25_Witness ==
    /\ par.pc = "exit"
    /\ par.phase = "upgrade_test_wait_for_upgrade"
    /\ par.tasks[par.raised] = "raised"
    /\ \E k \in DOMAIN par.tasks : par.tasks[k] = "running"

C28_ReturnsOnceReportedHeightReachesTarget ==
    (op = "evm_wait_until_chain_at_height" /\ pc \in {"query", "wait", "exit"}) =>
        (latest = None \/ latest < target)

\* C29: in SequencerController.wait_until_chain_at_height, EvmController.
\* wait_until_chain_at_height and Cli.wait_until_balance every wait that
\* returned is followed by a query before the next wait: the loop is about
\* to wait, or has given up, only straight after one more query than it
\* has slept, and that query failed or left the condition unmet; a loop
\* about to query has queried as often as it has slept.
C29_TimeoutOnlyAfterUnsatisfiedQuery ==
    op \in {"seq_wait_until_chain_at_height", "evm_wait_until_chain_at_height",
            "cli_wait_until_balance"} =>
        /\ retryer.successful_wait_count = Len(sleeps)
        /\ (pc = "query" => counts.attempts = Len(sleeps))
        /\ (pc \in {"cmd_try", "cmd_wait", "wait", "exit", "done"} =>
               counts.attempts = Len(sleeps) + 1)
        /\ (pc \in {"wait", "exit"} => ~ConditionMet(op, latest, target))
        /\ (pc = "exit" =>
               /\ result = SystemExit(NoError)
               /\ now + PollDelay > retryer.timeout_instant)

\* C29 witness: Cli.wait_until_balance gave up after three queries and two
\* sleeps, the last query having read a balance other than the expected.
C29_Witness ==
    /\ op = "cli_wait_until_balance"
    /\ pc = "exit"
    /\ counts.attempts = 3
    /\ Len(sleeps) = 2
    /\ latest # None
    /\ latest # target

\* ------------------------------------------ claims, wait_for_upgrade's end

\* C30: wait_for_upgrade(h) has returned normally only if its last step,
\* after staging, was a wait that observed the node at a height >= h; a
\* rollout that did not complete, a failed height or upgrades-info query,
\* a failed pre-check and a wait that never saw its target all end in an
\* error, and an error is raised in no other case.
C30_ReturnsOnlyWithActivationHeightObserved ==
    LET last == calls[Len(calls)] IN
    /\ (up.pc = "upgraded" =>
           /\ up.raised = "none"
           /\ Len(calls) > 2
           /\ last.call = "wait_until_chain_at_height"
           /\ last.height = up.upgrade_activation_height
           /\ last.ok
           /\ last.value # None
           /\ last.value >= up.upgrade_activation_height)
    /\ (up.pc = "exit" <=> up.raised # "none")
    /\ (Len(calls) > 0 /\ ~last.ok => up.pc = "exit")
    /\ (/\ Len(calls) > 0
        /\ last.call = "wait_until_chain_at_height"
        /\ (last.value = None \/ last.value < last.height)
        => up.pc = "exit")
    /\ (up.pc = "exit" /\ last.ok =>
           /\ last.call = "get_upgrades_info"
           /\ \/ Len(up.applied) # 0
              \/ check_change_infos(up.scheduled,
                     HeightsInt(up.upgrade_activation_height), None) # Passed)

\* C30 witness: a node that was staged while it answered no height query
\* returned from wait_for_upgrade having been seen above the activation
\* height.
C30_Witness ==
    /\ up.pc = "upgraded"
    /\ ctl.last_block_height_before_restart = None
    /\ calls[Len(calls)].call = "wait_until_chain_at_height"
    /\ calls[Len(calls)].value > up.upgrade_activation_height

\* ------------------------------ claims, the node left out of the upgrade

\* C31: the node chosen to miss the upgrade is staged only straight after
\* the stall check has read its height, with one wait_for_upgrade per other
\* node of the cohort submitted and every one of them returned; until it
\* has caught up it is not in the list of nodes that is staged and awaited.
C31_MissedNodeStagedAfterCohortAndStallCheck ==
    LET missed == drv.missed_upgrade_node
        log == drv.log
    IN  (drv.pc # "start" /\ missed # None) =>
            /\ (drv.pc # "rejoined" =>
                   /\ \A k \in DOMAIN drv.nodes : drv.nodes[k] # missed
                   /\ Len(drv.nodes) = NUM_NODES - 2)
            /\ Len(drv.tasks) \in {0, NUM_NODES - 2}
            /\ \A i \in DOMAIN log :
                   (log[i].node = missed /\ log[i].call = "stage_upgrade") =>
                       /\ i > 1
                       /\ log[i - 1].node = missed
                       /\ log[i - 1].call = "try_get_last_block_height"
                       /\ Len(drv.tasks) = NUM_NODES - 2
                       /\ \A k \in DOMAIN drv.tasks :
                              drv.tasks[k] = "returned"
                       /\ \A n \in 0 .. NUM_NODES - 3 :
                              \E j \in 1 .. i - 1 :
                                  /\ log[j].node = n
                                  /\ log[j].call = "stage_upgrade"
                                  /\ log[j].ok

\* C31 witness: the node left out has been staged, after the three others
\* returned from wait_for_upgrade.
C31_Witness ==
    /\ drv.pc = "missed_wait"
    /\ drv.missed_upgrade_node = NUM_NODES - 2
    /\ drv.log[Len(drv.log)].call = "stage_upgrade"
    /\ drv.log[Len(drv.log)].node = drv.missed_upgrade_node
    /\ drv.log[Len(drv.log)].ok

\* ------------------------------------------- claims, Retryer once more

\* C32: successful_wait_count of a Retryer is the number of its wait()
\* calls that have returned normally, and a wait() that raises the timeout
\* leaves it as it was.
C32_CountIsNumberOfReturnedWaits ==
    [][(r_phase = "ready" /\ r_last' \in {"wait_ok", "wait_timeout"}) =>
          /\ retryer.successful_wait_count = Len(sleeps)
          /\ retryer'.successful_wait_count = Len(sleeps')
          /\ (r_last' = "wait_ok" => Len(sleeps') = Len(sleeps) + 1)
          /\ (r_last' = "wait_timeout" => Len(sleeps') = Len(sleeps))]_vars

\* C32 witness: a fixed-delay Retryer has raised the timeout after three
\* waits that returned, and counts three.
C32_Witness ==
    /\ r_phase = "ready"
    /\ ~retryer.exponential_backoff
    /\ r_last = "wait_timeout"
    /\ Len(sleeps) = 3
    /\ retryer.successful_wait_count = 3

\* C35: a wait() raises the timeout only when less than one current delay
\* is left before the deadline; while the delay still fits, and when it
\* ends exactly at the deadline, the wait sleeps and returns.
C35_GivesUpOnlyWhenDelayDoesNotFit ==
    [][(r_phase = "ready" /\ r_last' \in {"wait_ok", "wait_timeout"}) =>
          /\ (r_last' = "wait_timeout" =>
                 SecondsRemaining(retryer, now) < retryer.sleep_secs)
          /\ (SecondsRemaining(retryer, now) >= retryer.sleep_secs =>
                 /\ r_last' = "wait_ok"
                 /\ now' = now + retryer.sleep_secs
                 /\ now' <= retryer.timeout_instant)]_vars

\* C35 witness: a wait has returned exactly at the deadline.
C35_Witness ==
    /\ r_phase = "ready"
    /\ r_last = "wait_ok"
    /\ Len(sleeps) >= 1
    /\ now = retryer.timeout_instant

\* --------------------------------------------- claims, loops that end

\* C34: with every query attempt returning, each polling wait and each
\* retried query ends, returning or raising; a polling wait, whose delay is
\* fixed, has made at most floor(timeout / delay) + 1 attempts, and a
\* retried query at most floor(timeout / initial delay) + 1.
C34_LoopsEndWithinBoundedAttempts ==
    /\ [](op \in PollingWaits =>
             counts.attempts <= (timeout_arg \div PollDelay) + 1)
    /\ [](op \in RetryingQueries =>
             counts.cmd_attempts
                 <= (RetryTimeout(op) \div DefaultInitialDelay) + 1)
    /\ ((op \in PollingWaits \cup RetryingQueries)
            ~> (pc \in {"done", "exit", "raised"}))

\* C34 witness: a polling wait with a timeout of three seconds or more
\* gave up having made every attempt the bound allows.
C34_Witness ==
    /\ op = "seq_wait_until_chain_at_height"
    /\ pc = "exit"
    /\ result = SystemExit(NoError)
    /\ timeout_arg >= Secs(3)
    /\ counts.attempts = (timeout_arg \div PollDelay) + 1

\* C36: the count a *_with_retry helper puts in its give-up error,
\* successful_wait_count + 1, is the number of attempts it made in that
\* call, all of which failed: it is so whenever the helper is about to call
\* wait(), and in the error it has raised.
C36_GiveUpCountIsFailedAttempts ==
    /\ (UsesRetriedCommand(op) /\ pc = "cmd_wait" =>
           /\ GiveUpError(op, cmd_retryer, last_error).count
                  = counts.cmd_attempts
           /\ counts.cmd_attempts >= 1)
    /\ (op \in RetryingQueries /\ pc = "raised" =>
           /\ result.kind = "RuntimeError"
           /\ result.count = counts.cmd_attempts
           /\ result.count = cmd_retryer.successful_wait_count + 1)

\* C36 witness: a retried query with the ten-second budget gave up after
\* five failed attempts and four sleeps.
C36_Witness ==
    /\ op = "seq_try_send_grpc_request_with_retry"
    /\ pc = "raised"
    /\ counts.cmd_attempts = 5
    /\ result.count = 5
    /\ cmd_retryer.successful_wait_count = 4

\* ------------------------------------- claims, bridge account deposits

\* C33: _check_bridge_account_deposits_disabled has passed only if the
\* bridge-lock before the disabling succeeded and a bridge-lock issued
\* after it failed.
C33_PassesOnlyIfLockFailsAfterDisabling ==
    br.pc = "passed" =>
        /\ br.log[1].call = "bridge-lock" /\ br.log[1].ok
        /\ \E i \in DOMAIN br.log :
               /\ i > 2
               /\ br.log[i].call = "bridge-lock"
               /\ ~br.log[i].ok

\* ------------------------------ claims, the app version after the upgrade

C38_PodDeletedIffNoHeightCaptured ==
    (/\ Len(calls) >= 2
     /\ calls[1].call = "try_get_last_block_height"
     /\ calls[2].call = "helm_upgrade"
     /\ calls[2].ok) =>
        ((\E i \in DOMAIN calls : calls[i].call = "kubectl_delete_pod")
            <=> ~calls[1].ok)

\* ----------------------------------------- claims, the evm height wait

\* C39: EvmController.wait_until_chain_at_height enters each iteration
\* holding no height that meets its test, so it leaves the loop only in an
\* iteration whose own query returned a height, one >= the target; an
\* iteration that leaves the held height as it was never ends in success.
C39_SuccessOnlyOnOwnQuery ==
    [][(op = "evm_wait_until_chain_at_height" /\ pc = "query") =>
          /\ ~ConditionMet(op, latest, target)
          /\ (pc' = "done" =>
                 /\ latest' # latest
                 /\ latest' # None
                 /\ latest' >= target
                 /\ last_error' = last_error)
          /\ (latest' = latest => pc' = "wait")]_vars

\* C39 witness: the wait returned on its third query, which read the
\* target height, an earlier query having failed.
C39_Witness ==
    /\ op = "evm_wait_until_chain_at_height"
    /\ pc = "done"
    /\ counts.attempts = 3
    /\ last_error # NoError
    /\ target = 2
    /\ latest = 2

====
